---- MODULE Spec2Model ----
(***************************************************************************)
(* A model of the quoting and order-lifecycle core of the market maker:    *)
(* the inventory ledger, the stop-loss manager, the order-book feed, the   *)
(* quote engines and the bot's main loops.                                 *)
(*                                                                         *)
(* Numbers.  Prices are integers in ticks of 0.001 (500 is 0.500), so the  *)
(* open interval (0,1) is 1..999.  Positions are whole numbers and may be   *)
(* negative; a USD value is a position times a price in ticks.  With the   *)
(* position counted in contracts that is thousandths of a dollar (the      *)
(* stop-loss manager); the quote engines count it in lots of 10,000        *)
(* contracts, which makes it units of 10 USD.  A ratio the code returns as *)
(* a float is kept exact as a pair <<numerator, denominator>> with         *)
(* denominator > 0.  Times are in milliseconds.                            *)
(***************************************************************************)
EXTENDS Integers, Sequences, FiniteSets, TLC

VARIABLES
    \* Inventory (inventory_manager.py)
    inv,            \* [yes_position, no_position, net_exposure_usd, total_value_usd]
    invVariant,     \* which of the two Inventory classes this ledger is
    invSumYes,      \* history: sum of every yes_delta passed to update
    invSumNo,       \* history: sum of every no_delta passed to update
    invLastPrice,   \* history: price passed to the most recent update (0: none yet)
    \* StopLossManager (stop_loss_manager.py)
    entry_prices,           \* [yes, no], None or a price
    stop_loss_triggered,
    slCall,                 \* history: the most recent call and what it returned
    \* PolymarketWebSocketOrderbook (websocket_orderbook.py): the cache side
    orderbook_cache,        \* token_id -> None or <<snapshot>>
    messages_received,
    updates_processed,
    \* PolymarketWebSocketOrderbook: the connection side
    websocket,              \* 0 (None) or the number of the open connection
    running,
    subscribed_tokens,
    connection_attempts,
    listenPc,               \* where the listen() task stands
    closePc,                \* where a close() call stands
    wire,                   \* history: <<connection, token>> of every subscribe sent
    feedLog,                \* history: what the reader and close() did last
    \* AdvancedQuoteEngine
    price_history,
    last_mid_price,
    \* the last call of a quote generator: its engine, inputs and result
    quoteCall,
    crossCall,              \* history: the last check_anti_crossing call
    \* MarketMakerBot (main.py)
    bot_running,            \* self.running
    market_id,
    current_orderbook,      \* None ({}) or <<[best_bid, best_ask]>>
    last_quote_time,
    botPc,                  \* where run() stands
    cyclePc,                \* where the run_cancel_replace_cycle task stands
    redeemPc,               \* where the run_auto_redeem task stands
    quotes_generated,       \* history: calls of generate_quotes by refresh_quotes
    close_calls,            \* history: the clients close() was called on, in order
    \* PolymarketRestClient (rest_client.py)
    market_info_cache,      \* None or <<[best_bid, best_ask]>> of the market
    market_cache_time,
    \* the world: the wall clock (ms) and the kinds of request sent so far
    now,
    gateway_requests,
    cycle_errors,           \* history: exceptions run_cancel_replace_cycle has caught
    \* DynamicSpreadEngine (dynamic_pricing_system.py)
    engine_config,          \* <<base_spread_bps, min_spread_bps, max_spread_bps>>
    spreadCall,             \* history: the last calculate_dynamic_spread call
    \* OrderManagementSystem (dynamic_pricing_system.py)
    active_orders,          \* the ids in OrderManagementSystem.active_orders
    fillCall,               \* history: the last handle_partial_fill call
    \* PolymarketWebSocketOrderbook: the lock, callbacks and a reader
    cache_lock,             \* who holds _cache_lock: "free", "writer", "reader"
    procPc,                 \* where _process_message stands
    procMessage,            \* the message _process_message handles, with its number
    update_callbacks,       \* len(_update_callbacks)
    callback_calls,         \* history: callbacks invoked so far
    readerPc,               \* where get_orderbook / get_multiple_orderbooks stands
    readTokens,             \* the tokens the reader has still to look up
    readResult,             \* what the reader has obtained, by token
    written,                \* history: the snapshots built for each token
    \* OrderPlacer and the OrderExecutor it places through
    placer_orders,          \* the ids in OrderPlacer.active_orders
    next_order_id,          \* the id the gateway gives the next order it accepts
    place_requests,         \* history: POST /order requests sent so far
    placeCall,              \* history: the last place_quotes call
    \* InventorySkewManager and OrderManagementSystem: calls of pure methods
    hedgeCall,              \* history: the last check_critical_skew call
    last_update_time,       \* OrderManagementSystem.last_update_time (ms)
    updateCall,             \* history: the last should_update_orders call
    sizeCall,               \* history: the last call of the sizing methods
    riskCall,               \* history: the last RiskManager.validate_order call
    \* OrderPlacer.cancel_expired_orders and OrderExecutor.cancel_order
    expires_at,             \* ActiveOrder.expires_at of each active order (ms)
    placer_clock,           \* time.time() of the placer's process (ms)
    pending_cancellations,  \* OrderExecutor.pending_cancellations
    cancel_requests,        \* history: ids a DELETE /order/{id} was sent for
    cancelPass,             \* the cancel_expired_orders call under way or last ended
    cancelCall,             \* history: the last direct cancel_order call
    placeRound,             \* the place_quotes call that is under way, step by step
    \* ProfitTracker
    tracker,                \* the tracker: its trades, counter, totals and counts
    closeCall,              \* history: the last ProfitTracker.close_trade call
    \* run_cancel_replace_cycle
    iteration_start,        \* history: when the iteration under way began (ms)
    \* The inventory-skew price adjustments
    skewCall                \* history: the last call of a skew adjustment

invVars == <<inv, invVariant, invSumYes, invSumNo, invLastPrice>>
slVars == <<entry_prices, stop_loss_triggered, slCall>>
cacheVars == <<orderbook_cache, messages_received, updates_processed>>
connVars == <<websocket, running, subscribed_tokens, connection_attempts,
              listenPc, closePc, wire, feedLog>>
quoteVars == <<price_history, last_mid_price, quoteCall, crossCall>>
botVars == <<bot_running, market_id, current_orderbook, last_quote_time, botPc, cyclePc,
             redeemPc, quotes_generated, close_calls, market_info_cache,
             market_cache_time, now, gateway_requests, cycle_errors>>
pricingVars == <<engine_config, spreadCall, active_orders, fillCall>>
feedVars == <<cache_lock, procPc, procMessage, update_callbacks, callback_calls,
              readerPc, readTokens, readResult, written>>
placerVars == <<placer_orders, next_order_id, place_requests, placeCall, expires_at>>
omsVars == <<hedgeCall, last_update_time, updateCall, sizeCall, riskCall>>
expiryVars == <<placer_clock, pending_cancellations, cancel_requests, cancelPass,
                cancelCall, placeRound>>
trackerVars == <<tracker, closeCall>>
cadenceVars == <<iteration_start>>
skewVars == <<skewCall>>
restVars == <<trackerVars, cadenceVars, skewVars>>
extVars == <<feedVars, placerVars, omsVars, expiryVars, restVars>>
vars == <<invVars, slVars, cacheVars, connVars, quoteVars, botVars, pricingVars, extVars>>

\* Python's None for an optional number: the empty sequence; a present value x
\* is <<x>>.
None == <<>>
Some(x) == <<x>>

Abs(x) == IF x < 0 THEN -x ELSE x

\* One unit of price: prices are in thousandths.
PriceScale == 1000

----------------------------------------------------------------------------
(* Inventory *)

\* Bounds of the inventory model.
MaxPos == 3
MaxDelta == 2
\* Reference prices passed to update, all inside (0,1).
RefPrices == {250, 500, 900}

NewInventory ==
    [yes_position |-> 0, no_position |-> 0,
     net_exposure_usd |-> 0, total_value_usd |-> 0]

\* A plausible slip: exposure and value accumulated from the deltas instead of
\* recomputed from the positions.
Inventory_update_incremental(i, yes_delta, no_delta, price) ==
    LET yes_value == yes_delta * price
        no_value == no_delta * (PriceScale - price)
    IN  [yes_position |-> i.yes_position + yes_delta,
         no_position |-> i.no_position + no_delta,
         net_exposure_usd |-> i.net_exposure_usd + (yes_value - no_value),
         total_value_usd |-> i.total_value_usd + (yes_value + no_value)]

\* Inventory.update of src/src/inventory/inventory_manager.py.
Inventory_update(i, yes_delta, no_delta, price) ==
    LET yes_position == i.yes_position + yes_delta
        no_position == i.no_position + no_delta
        yes_value == yes_position * price
        no_value == no_position * (PriceScale - price)
    IN  [yes_position |-> yes_position,
         no_position |-> no_position,
         net_exposure_usd |-> yes_value - no_value,
         total_value_usd |-> yes_value + no_value]

\* Inventory.update of src/inventory/inventory_manager.py (the same statements).
Inventory_update_top(i, yes_delta, no_delta, price) ==
    LET yes_position == i.yes_position + yes_delta
        no_position == i.no_position + no_delta
        yes_val == yes_position * price
        no_val == no_position * (PriceScale - price)
    IN  [yes_position |-> yes_position,
         no_position |-> no_position,
         net_exposure_usd |-> yes_val - no_val,
         total_value_usd |-> yes_val + no_val]

\* Inventory.get_skew: a ratio <<num, den>>.
Inventory_get_skew(i) ==
    LET total == Abs(i.yes_position) + Abs(i.no_position)
    IN  IF total = 0 THEN <<0, 1>>
        ELSE IF i.total_value_usd > 0
             THEN <<Abs(i.net_exposure_usd), i.total_value_usd>>
             ELSE <<0, 1>>

\* AdvancedQuoteEngine._calculate_inventory_skew: a ratio <<num, den>>, den > 0.
calculate_inventory_skew(i) ==
    LET total == i.yes_position + i.no_position
        diff == i.yes_position - i.no_position
    IN  IF total = 0 THEN <<0, 1>>
        ELSE LET num == IF total < 0 THEN -diff ELSE diff
                 den == Abs(total)
             IN  IF num > den THEN <<1, 1>>          \* min(1.0, skew)
                 ELSE IF num < -den THEN <<-1, 1>>   \* max(-1.0, ...)
                 ELSE <<num, den>>

InvVariants == {"core", "top"}

InvInit ==
    /\ inv = NewInventory
    /\ invVariant \in InvVariants
    /\ invSumYes = 0
    /\ invSumNo = 0
    /\ invLastPrice = 0

\* One call of update(yes_delta, no_delta, price).
Update(yes_delta, no_delta, price) ==
    /\ Abs(inv.yes_position + yes_delta) <= MaxPos
    /\ Abs(inv.no_position + no_delta) <= MaxPos
    /\ inv' = IF invVariant = "core"
              THEN Inventory_update(inv, yes_delta, no_delta, price)
              ELSE Inventory_update_top(inv, yes_delta, no_delta, price)
    /\ invSumYes' = invSumYes + yes_delta
    /\ invSumNo' = invSumNo + no_delta
    /\ invLastPrice' = price
    /\ UNCHANGED invVariant

UpdateCall ==
    /\ \E yd \in -MaxDelta..MaxDelta, nd \in -MaxDelta..MaxDelta, p \in RefPrices :
            Update(yd, nd, p)
    /\ UNCHANGED <<slVars, cacheVars, connVars, quoteVars, botVars, pricingVars, extVars>>

----------------------------------------------------------------------------
(* StopLossManager *)

\* stop_loss_pct, the constructor's default.
stop_loss_pct == 10

\* Entry and mark prices, and the position sizes check_stop_loss is called with.
EntryPrices == {400, 550}
MarkPrices == {100, 300, 350, 360, 500, 700, 900}
SlPositions == {-100, 0, 100}

\* Python truthiness of an optional number: None and 0.0 are both false.
Truthy(x) == x # None /\ x[1] # 0

\* A plausible slip (the sign convention of the no leg): the no leg is valued
\* at the yes price instead of 1 - yes price.
LossExceedsLimit_no_leg_at_yes_price(ep, yes_position, no_position, current_yes_price) ==
    LET yes_value == yes_position * current_yes_price
        no_value == no_position * current_yes_price
        total_value == yes_value + no_value
        yes_entry_value == IF Truthy(ep.yes) /\ yes_position # 0
                           THEN yes_position * ep.yes[1] ELSE 0
        no_entry_value == IF Truthy(ep.no) /\ no_position # 0
                          THEN no_position * ep.no[1] ELSE 0
        total_entry_value == yes_entry_value + no_entry_value
        pnl == total_value - total_entry_value
    IN  IF yes_position = 0 /\ no_position = 0 THEN FALSE
        ELSE IF Abs(total_value) < 10 THEN FALSE
        ELSE IF total_entry_value = 0 THEN FALSE
        ELSE IF total_entry_value > 0
             THEN pnl * 100 < -stop_loss_pct * total_entry_value
             ELSE pnl * 100 > -stop_loss_pct * total_entry_value

\* The value check_stop_loss returns when armed; total_value and the entry
\* value are in thousandths of a dollar.
LossExceedsLimit(ep, yes_position, no_position, current_yes_price) ==
    LET yes_value == yes_position * current_yes_price
        no_value == no_position * (PriceScale - current_yes_price)
        total_value == yes_value + no_value
        yes_entry_value == IF Truthy(ep.yes) /\ yes_position # 0
                           THEN yes_position * ep.yes[1] ELSE 0
        no_entry_value == IF Truthy(ep.no) /\ no_position # 0
                          THEN no_position * ep.no[1] ELSE 0
        total_entry_value == yes_entry_value + no_entry_value
        pnl == total_value - total_entry_value
    IN  IF yes_position = 0 /\ no_position = 0 THEN FALSE
        ELSE IF Abs(total_value) < 10 THEN FALSE        \* abs(total_value) < 0.01
        ELSE IF total_entry_value = 0 THEN FALSE
        \* loss_pct = pnl / total_entry_value * 100 < -stop_loss_pct
        ELSE IF total_entry_value > 0
             THEN pnl * 100 < -stop_loss_pct * total_entry_value
             ELSE pnl * 100 > -stop_loss_pct * total_entry_value

\* A plausible slip: the latch is not consulted, so a triggered manager
\* reports the trigger again.
check_stop_loss_unlatched(triggered, ep, yes_position, no_position, current_yes_price) ==
    LossExceedsLimit(ep, yes_position, no_position, current_yes_price)

\* check_stop_loss: the value returned.
check_stop_loss(triggered, ep, yes_position, no_position, current_yes_price) ==
    IF triggered THEN FALSE
    ELSE LossExceedsLimit(ep, yes_position, no_position, current_yes_price)

NoCall == [op |-> "none", ret |-> FALSE, was_triggered |-> FALSE,
           yes_position |-> 0, no_position |-> 0, price |-> 0]

SlInit ==
    /\ entry_prices = [yes |-> None, no |-> None]
    /\ stop_loss_triggered = FALSE
    /\ slCall = NoCall

record_entry(token_id, price) ==
    /\ entry_prices' = IF token_id \in DOMAIN entry_prices
                       THEN [entry_prices EXCEPT ![token_id] = Some(price)]
                       ELSE entry_prices
    /\ slCall' = [NoCall EXCEPT !.op = "record_entry",
                                !.was_triggered = stop_loss_triggered]
    /\ UNCHANGED stop_loss_triggered

CheckStopLoss(yes_position, no_position, current_yes_price) ==
    LET ret == check_stop_loss(stop_loss_triggered, entry_prices,
                               yes_position, no_position, current_yes_price)
    IN  /\ stop_loss_triggered' = (stop_loss_triggered \/ ret)
        /\ slCall' = [op |-> "check_stop_loss", ret |-> ret,
                      was_triggered |-> stop_loss_triggered,
                      yes_position |-> yes_position, no_position |-> no_position,
                      price |-> current_yes_price]
        /\ UNCHANGED entry_prices

reset ==
    /\ stop_loss_triggered' = FALSE
    /\ entry_prices' = [yes |-> None, no |-> None]
    /\ slCall' = [NoCall EXCEPT !.op = "reset",
                                !.was_triggered = stop_loss_triggered]

should_close_position == stop_loss_triggered

RecordEntryCall ==
    /\ \E t \in {"yes", "no", "other"}, p \in EntryPrices : record_entry(t, p)
    /\ UNCHANGED <<invVars, cacheVars, connVars, quoteVars, botVars, pricingVars, extVars>>

CheckStopLossCall ==
    /\ \E y \in SlPositions, n \in SlPositions, p \in MarkPrices : CheckStopLoss(y, n, p)
    /\ UNCHANGED <<invVars, cacheVars, connVars, quoteVars, botVars, pricingVars, extVars>>

ResetCall ==
    /\ reset
    /\ UNCHANGED <<invVars, cacheVars, connVars, quoteVars, botVars, pricingVars, extVars>>

----------------------------------------------------------------------------
(* PolymarketWebSocketOrderbook: parsing and the snapshot cache *)

\* Bounds of the cache model: levels per side of a message, messages handled.
MaxLevels == 2
MaxMessages == 2

Tokens == {"yes", "no"}
\* A message without token_id / tokenId (or with an empty one).
NoToken == ""

\* The raw levels a message may carry: a [price, size] pair that float()
\* accepts, or an entry that is skipped (not a pair, or not numeric).
RawLevels ==
    {[ok |-> TRUE, price |-> pr, size |-> 1] : pr \in {0, 400, 600, 1000}}
    \cup {[ok |-> TRUE, price |-> 400, size |-> 0],
          [ok |-> TRUE, price |-> 1100, size |-> 1],
          [ok |-> FALSE, price |-> 0, size |-> 0]}

RawSides == UNION {[1..n -> RawLevels] : n \in 0..MaxLevels}

\* int(x) of a non-negative ratio n / d.
IntDiv(n, d) == n \div d

\* OrderbookSnapshot.__init__ (the timestamp is not modelled).
OrderbookSnapshot(token_id, bids, asks) ==
    LET best_bid == IF bids # <<>> THEN bids[1][1] ELSE 0
        best_ask == IF asks # <<>> THEN asks[1][1] ELSE PriceScale
    IN  [token_id |-> token_id, bids |-> bids, asks |-> asks,
         best_bid |-> best_bid, best_ask |-> best_ask,
         spread_bps |-> IF best_ask > best_bid /\ best_bid > 0
                        THEN IntDiv((best_ask - best_bid) * 20000, best_bid + best_ask)
                        ELSE 0]

\* OrderbookSnapshot.is_valid
is_valid(snap) ==
    /\ snap.bids # <<>>
    /\ snap.asks # <<>>
    /\ 0 < snap.best_bid /\ snap.best_bid < snap.best_ask /\ snap.best_ask < PriceScale

\* The level loop of _parse_orderbook_message: the levels kept, in message order.
RECURSIVE ParseLevels(_)
ParseLevels(raw) ==
    IF raw = <<>> THEN <<>>
    ELSE LET l == Head(raw)
             rest == ParseLevels(Tail(raw))
         IN  IF l.ok /\ 0 <= l.price /\ l.price <= PriceScale /\ l.size > 0
             THEN <<(<<l.price, l.size>>)>> \o rest
             ELSE rest

\* _parse_orderbook_message without the is_valid() check on the snapshot.
parse_orderbook_message_unvalidated(data) ==
    IF data.token_id = NoToken THEN None
    ELSE IF ParseLevels(data.bids) = <<>> \/ ParseLevels(data.asks) = <<>> THEN None
         ELSE Some(OrderbookSnapshot(data.token_id, ParseLevels(data.bids),
                                     ParseLevels(data.asks)))

\* _parse_orderbook_message: None or <<snapshot>>.
parse_orderbook_message(data) ==
    IF data.token_id = NoToken THEN None
    ELSE LET bids == ParseLevels(data.bids)
             asks == ParseLevels(data.asks)
         IN  IF bids = <<>> \/ asks = <<>> THEN None
             ELSE LET snapshot == OrderbookSnapshot(data.token_id, bids, asks)
                  IN  IF is_valid(snapshot) THEN Some(snapshot) ELSE None

CacheInit ==
    /\ orderbook_cache = [t \in Tokens |-> None]
    /\ messages_received = 0
    /\ updates_processed = 0

\* _process_message on text that is not JSON: json.loads raises before anything
\* is counted.
ProcessBadJson ==
    /\ messages_received < MaxMessages
    /\ UNCHANGED cacheVars

\* _process_message on a JSON message that is neither of type "orderbook" nor
\* carries "bids".
ProcessOtherMessage ==
    /\ messages_received < MaxMessages
    /\ messages_received' = messages_received + 1
    /\ UNCHANGED <<orderbook_cache, updates_processed>>

\* _process_message on an order-book message.
process_message(data) ==
    LET snapshot == parse_orderbook_message(data)
    IN  /\ messages_received < MaxMessages
        /\ messages_received' = messages_received + 1
        /\ IF snapshot # None
           THEN /\ updates_processed' = updates_processed + 1
                /\ orderbook_cache' =
                       [orderbook_cache EXCEPT ![snapshot[1].token_id] = snapshot]
           ELSE UNCHANGED <<orderbook_cache, updates_processed>>

\* Every order-book message within the bounds.
BookMessages ==
    {[token_id |-> tok, bids |-> bids, asks |-> asks] :
        tok \in Tokens \cup {NoToken}, bids \in RawSides, asks \in RawSides}

ProcessBookMessage == \E data \in BookMessages : process_message(data)

\* The order-book messages the connection model delivers: a sound book for
\* each token and a crossed one.
Level(price) == [ok |-> TRUE, price |-> price, size |-> 1]
ListenedMessages ==
    {[token_id |-> "yes", bids |-> <<Level(400)>>, asks |-> <<Level(600)>>],
     [token_id |-> "no", bids |-> <<Level(400)>>, asks |-> <<Level(600)>>],
     [token_id |-> "yes", bids |-> <<Level(600)>>, asks |-> <<Level(400)>>]}

\* get_orderbook
get_orderbook(token_id) == orderbook_cache[token_id]

----------------------------------------------------------------------------
(* PolymarketWebSocketOrderbook: connection, subscriptions, listen() *)

\* Bound: connection attempts made in one run.
MaxAttempts == 3

NoSocket == 0

ConnInit ==
    /\ websocket = NoSocket
    /\ running = FALSE
    /\ subscribed_tokens = {}
    /\ connection_attempts = 0
    /\ listenPc = "idle"
    /\ closePc = "idle"
    /\ wire = {}
    /\ feedLog = [reader |-> "none", reconnected_on |-> NoSocket,
                  connect_failed |-> FALSE, close_called |-> FALSE]

\* connect(), up to the await of websockets.connect: the attempt is counted.
connect_begin ==
    /\ connection_attempts < MaxAttempts
    /\ connection_attempts' = connection_attempts + 1

\* connect(), after the await: the new socket and running, or running = False.
\* The socket opened by attempt n is numbered n.
connect_end(ok, attempt) ==
    IF ok THEN /\ websocket' = attempt
               /\ running' = TRUE
          ELSE /\ running' = FALSE
               /\ UNCHANGED websocket

\* subscribe(token_id) on socket ws with the remembered set subs: the new
\* remembered set, the messages sent and the value returned.
subscribe(ws, subs, sent, token_id, send_ok) ==
    IF ws = NoSocket THEN [subs |-> subs, wire |-> sent, ret |-> FALSE]
    ELSE IF token_id \in subs THEN [subs |-> subs, wire |-> sent, ret |-> TRUE]
    ELSE IF send_ok
         THEN [subs |-> subs \cup {token_id},
               wire |-> sent \cup {<<ws, token_id>>}, ret |-> TRUE]
         ELSE [subs |-> subs, wire |-> sent, ret |-> FALSE]

\* reconnect()'s loop "for token_id in list(self._subscribed_tokens):
\* await self.subscribe(token_id)" over the tokens todo.
RECURSIVE resubscribe_all(_, _, _, _)
resubscribe_all(ws, subs, sent, todo) ==
    IF todo = {} THEN [subs |-> subs, wire |-> sent]
    ELSE LET token_id == CHOOSE t \in todo : TRUE
             r == subscribe(ws, subs, sent, token_id, TRUE)
         IN  resubscribe_all(ws, r.subs, r.wire, todo \ {token_id})

\* The application calls connect() before it starts listen().
ConnectCall ==
    /\ listenPc = "idle" /\ closePc = "idle"
    /\ connect_begin
    /\ \E ok \in BOOLEAN : connect_end(ok, connection_attempts + 1)
    /\ UNCHANGED <<subscribed_tokens, listenPc, closePc, wire, feedLog>>

\* The application calls subscribe(token_id).
SubscribeCall ==
    /\ \E token_id \in Tokens, send_ok \in BOOLEAN :
          LET r == subscribe(websocket, subscribed_tokens, wire, token_id, send_ok)
          IN  /\ subscribed_tokens' = r.subs
              /\ wire' = r.wire
    /\ UNCHANGED <<websocket, running, connection_attempts, listenPc, closePc, feedLog>>

\* listen() is started as a task.
ListenStart ==
    /\ listenPc = "idle"
    /\ listenPc' = "loop"
    /\ UNCHANGED <<websocket, running, subscribed_tokens, connection_attempts,
                   closePc, wire, feedLog>>

\* "while self.running:" and, inside, "if not self.websocket: connect()".
ListenLoop ==
    /\ listenPc = "loop"
    /\ IF ~running
       THEN /\ listenPc' = "done"
            /\ UNCHANGED connection_attempts
       ELSE IF websocket = NoSocket
            THEN /\ connect_begin
                 /\ listenPc' = "connecting"
            ELSE /\ listenPc' = "recv"
                 /\ UNCHANGED connection_attempts
    /\ UNCHANGED <<websocket, running, subscribed_tokens, closePc, wire, feedLog>>

\* listen(): connect() returns; on failure "await asyncio.sleep(5); continue".
ListenConnected ==
    /\ listenPc = "connecting"
    /\ \E ok \in BOOLEAN :
          /\ connect_end(ok, connection_attempts)
          /\ listenPc' = IF ok THEN "recv" ELSE "backoff"
          /\ feedLog' = [feedLog EXCEPT !.reader = IF ok THEN "connected" ELSE "connect_failed",
                                         !.connect_failed = ~ok]
    /\ UNCHANGED <<subscribed_tokens, connection_attempts, closePc, wire>>

\* listen(): a sleep (5 s after a failed connect, 2 s after an error) ends.
ListenBackoffEnds ==
    /\ listenPc = "backoff"
    /\ listenPc' = "loop"
    /\ UNCHANGED <<websocket, running, subscribed_tokens, connection_attempts,
                   closePc, wire, feedLog>>

\* listen(): recv() delivers a message, which _process_message handles.
ListenMessage ==
    /\ listenPc = "recv" /\ websocket # NoSocket
    /\ \/ ProcessBadJson
       \/ ProcessOtherMessage
       \/ \E data \in ListenedMessages : process_message(data)
    /\ listenPc' = "loop"
    /\ feedLog' = [feedLog EXCEPT !.reader = "message"]
    /\ UNCHANGED <<websocket, running, subscribed_tokens, connection_attempts,
                   closePc, wire>>

\* listen(): recv() times out after 30 s or raises ConnectionClosed; both
\* handlers call reconnect(), which first closes the socket.
ListenTimeoutOrClosed ==
    /\ listenPc = "recv" /\ websocket # NoSocket
    /\ listenPc' = "reconnect_close"
    /\ feedLog' = [feedLog EXCEPT !.reader = "timeout_or_closed"]
    /\ UNCHANGED <<websocket, running, subscribed_tokens, connection_attempts,
                   closePc, wire>>

\* listen(): self.websocket is None when recv is called (close() ran): the
\* AttributeError is caught by "except Exception", which sleeps 2 s.
ListenError ==
    /\ listenPc = "recv" /\ websocket = NoSocket
    /\ listenPc' = "backoff"
    /\ feedLog' = [feedLog EXCEPT !.reader = "error"]
    /\ UNCHANGED <<websocket, running, subscribed_tokens, connection_attempts,
                   closePc, wire>>

\* reconnect(): the socket is closed and forgotten, then the 2 s cooldown.
ReconnectClose ==
    /\ listenPc = "reconnect_close"
    /\ websocket' = NoSocket
    /\ listenPc' = "reconnect_sleep"
    /\ UNCHANGED <<running, subscribed_tokens, connection_attempts, closePc,
                   wire, feedLog>>

\* reconnect(): the cooldown ends and connect() is called.
ReconnectConnect ==
    /\ listenPc = "reconnect_sleep"
    /\ connect_begin
    /\ listenPc' = "reconnect_connecting"
    /\ UNCHANGED <<websocket, running, subscribed_tokens, closePc, wire, feedLog>>

\* reconnect(): connect() returns; on success every remembered token is
\* passed to subscribe().  reconnect() returns into listen()'s loop.
ReconnectConnected ==
    /\ listenPc = "reconnect_connecting"
    /\ \E ok \in BOOLEAN :
          /\ connect_end(ok, connection_attempts)
          /\ IF ok
             THEN LET r == resubscribe_all(connection_attempts, subscribed_tokens,
                                           wire, subscribed_tokens)
                  IN  /\ subscribed_tokens' = r.subs
                      /\ wire' = r.wire
                      /\ feedLog' = [feedLog EXCEPT !.reader = "reconnected",
                                        !.reconnected_on = connection_attempts,
                                        !.connect_failed = FALSE]
             ELSE /\ UNCHANGED <<subscribed_tokens, wire>>
                  /\ feedLog' = [feedLog EXCEPT !.reader = "connect_failed",
                                                !.connect_failed = TRUE]
    /\ listenPc' = "loop"
    /\ UNCHANGED <<connection_attempts, closePc>>

\* close(): running = False, then the await of websocket.close() when there
\* is a socket.
CloseCall ==
    /\ closePc = "idle"
    /\ running' = FALSE
    /\ feedLog' = [feedLog EXCEPT !.close_called = TRUE]
    /\ closePc' = IF websocket # NoSocket THEN "closing" ELSE "closed"
    /\ UNCHANGED <<websocket, subscribed_tokens, connection_attempts, listenPc, wire>>

\* close(): after the await, self.websocket = None.
CloseDone ==
    /\ closePc = "closing"
    /\ websocket' = NoSocket
    /\ closePc' = "closed"
    /\ UNCHANGED <<running, subscribed_tokens, connection_attempts, listenPc,
                   wire, feedLog>>

----------------------------------------------------------------------------
(* Arithmetic of the quote engines *)

\* Prices are whole ticks of 0.001.  The positions of the ledger are counted
\* in lots of 10,000 contracts, so that its exposure (position * ticks) and
\* every amount of money below is in units of 10 USD.  A number that is not
\* whole is a ratio <<n, d>> with d > 0.

Max(a, b) == IF a < b THEN b ELSE a
Min(a, b) == IF b < a THEN b ELSE a
Clamp(x, lo, hi) == IF x < lo THEN lo ELSE IF x > hi THEN hi ELSE x

\* round(n / d) to a whole number, d > 0.  A value exactly half way between
\* two numbers is decided by the binary representation of the float, which is
\* not modelled: either neighbour may come out (up tells which).
RoundDiv(n, d, up) ==
    IF (2 * n + d) % (2 * d) = 0 /\ ~up
    THEN ((2 * n + d) \div (2 * d)) - 1
    ELSE (2 * n + d) \div (2 * d)

RECURSIVE GCD(_, _)
GCD(a, b) == IF b = 0 THEN a ELSE GCD(b, a % b)

\* The ratio n / d (d # 0) in lowest terms with a positive denominator.
Rat(n, d) ==
    LET g == GCD(Abs(n), Abs(d))
    IN  <<(IF d < 0 THEN -1 ELSE 1) * (n \div g), Abs(d) \div g>>

RatAdd(x, y) ==
    LET g == GCD(x[2], y[2])
    IN  Rat(x[1] * (y[2] \div g) + y[1] * (x[2] \div g), (x[2] \div g) * y[2])
RatNeg(x) == <<-x[1], x[2]>>
RatSub(x, y) == RatAdd(x, RatNeg(y))
RatMul(x, y) ==
    Rat(Rat(x[1], y[2])[1] * Rat(y[1], x[2])[1], Rat(x[1], y[2])[2] * Rat(y[1], x[2])[2])
RatLess(x, y) == x[1] * y[2] < y[1] * x[2]
RatAbs(x) == <<Abs(x[1]), x[2]>>
RatMax(x, y) == IF RatLess(x, y) THEN y ELSE x
RatMin(x, y) == IF RatLess(y, x) THEN y ELSE x
RatInt(k) == <<k, 1>>

\* int(x) of a ratio x >= 0.
RatFloor(x) == x[1] \div x[2]
\* int(x): truncation towards zero.
RatTrunc(x) == IF x[1] >= 0 THEN x[1] \div x[2] ELSE -((-x[1]) \div x[2])

\* round(x) of a ratio.
RatRound(x, up) == RoundDiv(x[1], x[2], up)

----------------------------------------------------------------------------
(* Settings (src/config.py), money in units of 10 USD *)

min_spread_bps == 10
default_size == 10
max_exposure_usd == 1000
min_exposure_usd == -1000
target_balance == 0
tick_size == 1

----------------------------------------------------------------------------
(* InventoryManager and QuoteEngine of src/src *)

\* The result of a sizing call: the size n / d, or the ZeroDivisionError of
\* a division by a zero price.
Size(n, d) == [raised |-> FALSE, size |-> Rat(n, d)]
SizeError == [raised |-> TRUE, size |-> <<0, 1>>]

can_quote_yes(i, size_usd) ==
    i.net_exposure_usd * size_usd[2] + size_usd[1] <= max_exposure_usd * size_usd[2]

can_quote_no(i, size_usd) ==
    i.net_exposure_usd * size_usd[2] - size_usd[1] >= min_exposure_usd * size_usd[2]

\* get_quote_size_yes(base_size, price), price in ticks.
get_quote_size_yes(i, base_size, price) ==
    IF ~can_quote_yes(i, <<base_size, 1>>)
    THEN LET max_size == Max(0, max_exposure_usd - i.net_exposure_usd)
         IN  IF price = 0 THEN SizeError
             ELSE IF base_size * price <= max_size * PriceScale      \* min(...)
                  THEN Size(base_size, 1)
                  ELSE Size(max_size * PriceScale, price)
    ELSE IF i.net_exposure_usd > target_balance THEN Size(base_size, 2)
    ELSE Size(base_size, 1)

get_quote_size_no(i, base_size, price) ==
    IF ~can_quote_no(i, <<base_size, 1>>)
    THEN LET max_size == Abs(min_exposure_usd - i.net_exposure_usd)
         IN  IF PriceScale - price = 0 THEN SizeError
             ELSE IF base_size * (PriceScale - price) <= max_size * PriceScale
                  THEN Size(base_size, 1)
                  ELSE Size(max_size * PriceScale, PriceScale - price)
    ELSE IF i.net_exposure_usd < target_balance THEN Size(base_size, 2)
    ELSE Size(base_size, 1)

\* What a generator returns: the two legs (None, or <<[price, size]>>), or an
\* exception that leaves the generator.
NoQuotes == [raised |-> FALSE, yes |-> None, no |-> None]
QuoteError == [raised |-> TRUE, yes |-> None, no |-> None]
Quote(price, size) == Some([price |-> price, size |-> size])

\* calculate_mid_price, doubled.
calculate_mid_price2(best_bid, best_ask) ==
    IF best_bid <= 0 \/ best_ask <= 0 THEN 0 ELSE best_bid + best_ask

\* "a + b >= 0.999" on floats: when the sum is 0.999 either outcome (ge).
EdgeTooSmall(yes_p, no_p, ge) ==
    yes_p + no_p > PriceScale - 1 \/ (yes_p + no_p = PriceScale - 1 /\ ge)

\* The quotes of generate_quotes once its two prices are known.
sized_quotes(i, yes_bid_price, no_bid_price) ==
    LET yes_size == get_quote_size_yes(i, default_size, yes_bid_price)
        no_size == get_quote_size_no(i, default_size, no_bid_price)
    IN  IF yes_size.raised \/ no_size.raised THEN QuoteError
        ELSE [raised |-> FALSE,
              yes |-> IF can_quote_yes(i, yes_size.size)
                      THEN Quote(yes_bid_price, yes_size.size) ELSE None,
              no |-> IF can_quote_no(i, no_size.size)
                     THEN Quote(no_bid_price, no_size.size) ELSE None]

\* QuoteEngine.generate_quotes of src/src/market_maker/quote_engine.py.
\* fp[1], fp[2] decide the two roundings when they are ties and fp[3] the
\* float comparison "total_cost >= 0.999" when the sum is 0.999.
generate_quotes(i, best_bid, best_ask, fp) ==
    LET mid2 == calculate_mid_price2(best_bid, best_ask)
        keep == 10000 - min_spread_bps
        yes_1 == Max(RoundDiv(mid2 * keep, 20000, fp[1]), tick_size)
        no_1 == Max(RoundDiv((2 * PriceScale - mid2) * keep, 20000, fp[2]), tick_size)
    IN  IF mid2 <= 0 THEN NoQuotes
        ELSE IF EdgeTooSmall(yes_1, no_1, fp[3])
             THEN sized_quotes(i, yes_1 - 1, no_1 - 1)
             ELSE sized_quotes(i, yes_1, no_1)

----------------------------------------------------------------------------
(* InventoryManager and QuoteEngine of src (the L2-aware variant) *)

\* InventoryManager.apply_skew_to_price, prices in ticks; up decides the
\* rounding of the adjustment when it is a tie.  max(max_exposure_usd, 1.0)
\* is max_exposure_usd, 1.0 USD being a tenth of a unit.
apply_skew_to_price_unclamped(i, price, is_yes, up) ==
    LET adjustment == RoundDiv(5 * i.net_exposure_usd, max_exposure_usd, up)
    IN  IF is_yes THEN price - adjustment ELSE price + adjustment

apply_skew_to_price(i, price, is_yes, up) ==
    LET adjustment == RoundDiv(5 * i.net_exposure_usd, max_exposure_usd, up)
    IN  Clamp(IF is_yes THEN price - adjustment ELSE price + adjustment,
              1, PriceScale - 1)

get_quote_size_yes_top(i, base_size, price) ==
    IF i.net_exposure_usd * PriceScale + base_size * price > max_exposure_usd * PriceScale
    THEN <<0, 1>> ELSE <<base_size, 1>>

get_quote_size_no_top(i, base_size, price) ==
    IF i.net_exposure_usd * PriceScale - base_size * (PriceScale - price)
           < min_exposure_usd * PriceScale
    THEN <<0, 1>> ELSE <<base_size, 1>>

RECURSIVE SumSize(_, _)
SumSize(levels, k) ==
    IF k = 0 \/ levels = <<>> THEN 0
    ELSE Head(levels)[2] + SumSize(Tail(levels), k - 1)

RECURSIVE SumPriceSize(_, _)
SumPriceSize(levels, k) ==
    IF k = 0 \/ levels = <<>> THEN 0
    ELSE Head(levels)[1] * Head(levels)[2] + SumPriceSize(Tail(levels), k - 1)

\* QuoteEngine.calculate_imbalance (top 5 levels): a ratio in [-1, 1].
calculate_imbalance(bids, asks) ==
    IF bids = <<>> \/ asks = <<>> THEN <<0, 1>>
    ELSE IF SumSize(bids, 5) + SumSize(asks, 5) = 0 THEN <<0, 1>>
    ELSE <<SumSize(asks, 5) - SumSize(bids, 5), SumSize(asks, 5) + SumSize(bids, 5)>>

\* QuoteEngine._calculate_l2_mid_price (top 3 levels): the mid in ticks, a ratio.
calculate_l2_mid_price(bids, asks) ==
    IF bids = <<>> \/ asks = <<>>
    THEN <<PriceScale, 2>>                      \* IndexError, then "return 0.5"
    ELSE IF SumSize(bids, 3) = 0 \/ SumSize(asks, 3) = 0
    THEN <<bids[1][1] + asks[1][1], 2>>
    ELSE LET n == SumPriceSize(bids, 3) * SumSize(asks, 3)
                  + SumPriceSize(asks, 3) * SumSize(bids, 3)
             d == 2 * SumSize(bids, 3) * SumSize(asks, 3)
         IN  IF n < d THEN <<1, 1>>
             ELSE IF n > (PriceScale - 1) * d THEN <<PriceScale - 1, 1>>
             ELSE <<n, d>>

\* The order-book data handed to the generators: no L2 data, L2 data without
\* a yes book, or L2 data with the yes book <<[bids, asks]>>.
NoL2 == [l2_available |-> FALSE, yes |-> None]
L2(yes_l2) == [l2_available |-> TRUE, yes |-> yes_l2]

\* The edge-protection loop of generate_quotes.
RECURSIVE edge_protection(_, _, _)
edge_protection(yes_p, no_p, ge) ==
    IF EdgeTooSmall(yes_p, no_p, ge) /\ (yes_p > tick_size \/ no_p > tick_size)
    THEN edge_protection(yes_p - tick_size, no_p - tick_size, ge)
    ELSE <<yes_p, no_p>>

\* round(max(mid * (1 - spread_bps / 10000), tick_size), 3) for a mid <<n, d>>.
quote_price(mid, up) ==
    IF mid[1] * (10000 - min_spread_bps) < tick_size * mid[2] * 10000
    THEN tick_size
    ELSE RoundDiv(mid[1] * (10000 - min_spread_bps), mid[2] * 10000, up)

\* The quotes of generate_quotes for the pair p of prices the loop ends with.
protected_quotes(i, p, ge) ==
    IF EdgeTooSmall(p[1], p[2], ge) THEN NoQuotes
    ELSE [raised |-> FALSE,
          yes |-> Quote(p[1], get_quote_size_yes_top(i, default_size, p[1])),
          no |-> Quote(p[2], get_quote_size_no_top(i, default_size, p[2]))]

\* generate_quotes from the prices after the skew: the imbalance adjustment,
\* the edge protection and the sizes.
adjusted_quotes(i, yes_1, no_1, adjust, imbalance, fp) ==
    protected_quotes(i,
        edge_protection(
            IF adjust
            THEN RoundDiv(yes_1 * imbalance[2] - 2 * imbalance[1], imbalance[2], fp[4])
            ELSE yes_1,
            IF adjust
            THEN RoundDiv(no_1 * imbalance[2] + 2 * imbalance[1], imbalance[2], fp[5])
            ELSE no_1,
            fp[6]),
        fp[6])

\* QuoteEngine.generate_quotes of src/market_maker/quote_engine.py.  fp[1..5]
\* decide the roundings that are ties (yes, no, skew adjustment, yes and no
\* after the imbalance adjustment), fp[6] the float comparison with 0.999.
generate_quotes_l2(i, best_bid, best_ask, orderbook_data, fp) ==
    LET using_l2 == orderbook_data.l2_available
        has_book == orderbook_data.l2_available /\ orderbook_data.yes # None
        imbalance == IF has_book
                     THEN calculate_imbalance(orderbook_data.yes[1].bids,
                                              orderbook_data.yes[1].asks)
                     ELSE <<0, 1>>
        mid_yes == IF has_book
                   THEN calculate_l2_mid_price(orderbook_data.yes[1].bids,
                                               orderbook_data.yes[1].asks)
                   ELSE IF best_bid > 0 /\ best_ask > 0
                        THEN <<best_bid + best_ask, 2>>
                        ELSE <<PriceScale, 2>>
        mid_no == <<PriceScale * mid_yes[2] - mid_yes[1], mid_yes[2]>>
    IN  IF mid_yes[1] <= 0 \/ mid_yes[1] >= PriceScale * mid_yes[2]
        THEN NoQuotes
        ELSE adjusted_quotes(i,
                 apply_skew_to_price(i, quote_price(mid_yes, fp[1]), TRUE, fp[3]),
                 apply_skew_to_price(i, quote_price(mid_no, fp[2]), FALSE, fp[3]),
                 using_l2 /\ 10 * Abs(imbalance[1]) > 3 * imbalance[2],
                 imbalance, fp)

----------------------------------------------------------------------------
(* DynamicSpreadEngine, InventorySkewManager, OrderManagementSystem and
   AdvancedQuoteEngine *)

\* The volatility is carried as its square: the code uses it as
\* volatility ** 2 and in comparisons with constants only.
RECURSIVE Returns(_)
Returns(prices) ==
    IF Len(prices) < 2 THEN <<>>
    ELSE <<Rat(prices[2] - prices[1], prices[1])>> \o Returns(Tail(prices))

RECURSIVE RatSum(_)
RatSum(xs) == IF xs = <<>> THEN <<0, 1>> ELSE RatAdd(Head(xs), RatSum(Tail(xs)))

RatSquare(x) == RatMul(x, x)

RECURSIVE SumSquaredDev(_, _)
SumSquaredDev(xs, mean) ==
    IF xs = <<>> THEN <<0, 1>>
    ELSE RatAdd(RatSquare(RatSub(Head(xs), mean)), SumSquaredDev(Tail(xs), mean))

\* min(std_dev * 100, 1.0) ** 2 of the returns with their mean.
volatility_sq_of(returns, mean_ret) ==
    RatMin(RatMul(RatInt(10000),
                  RatMul(SumSquaredDev(returns, mean_ret), Rat(1, Len(returns)))),
           RatInt(1))

\* AdvancedQuoteEngine._calculate_volatility, squared.
calculate_volatility_sq(prices) ==
    IF Len(prices) < 2 THEN <<0, 1>>
    ELSE volatility_sq_of(Returns(prices),
                          RatMul(RatSum(Returns(prices)), Rat(1, Len(prices) - 1)))

\* DynamicSpreadEngine.__init__ as AdvancedQuoteEngine.__init__ calls it.
base_spread_bps == min_spread_bps
engine_min_spread_bps == Max(5, min_spread_bps)
engine_max_spread_bps == 500

\* The three protections of calculate_dynamic_spread, in the order applied.
volatility_protection(spread, context) ==
    IF RatLess(Rat(9, 100), context.volatility_sq)        \* volatility > 0.3
    THEN RatTrunc(RatMul(RatInt(spread),
                         RatAdd(RatInt(1), RatMul(context.volatility_sq, RatInt(4)))))
    ELSE spread

\* The imbalance protection with the adjustment taken from the signed
\* imbalance instead of its absolute value.
imbalance_protection_signed(spread, context) ==
    IF RatLess(Rat(3, 10), RatAbs(context.imbalance))
    THEN Max(spread, RatTrunc(RatMul(context.imbalance, RatInt(100))))
    ELSE spread

imbalance_protection(spread, context) ==
    IF RatLess(Rat(3, 10), RatAbs(context.imbalance))
    THEN Max(spread, RatFloor(RatMul(RatAbs(context.imbalance), RatInt(100))))
    ELSE spread

inventory_skew_protection(spread, context) ==
    IF RatLess(Rat(6, 10), RatAbs(context.inventory_skew))
    THEN RatTrunc(RatMul(RatInt(spread),
                         RatAdd(RatInt(1), RatMul(RatAbs(context.inventory_skew), Rat(1, 2)))))
    ELSE spread

\* calculate_dynamic_spread without its last statement,
\* spread = max(min_spread_bps, min(spread, max_spread_bps)).
calculate_dynamic_spread_unclamped(base, lo, hi, context) ==
    inventory_skew_protection(
        imbalance_protection(volatility_protection(base, context), context),
        context)

\* DynamicSpreadEngine.calculate_dynamic_spread for an engine (base, lo, hi).
calculate_dynamic_spread(base, lo, hi, context) ==
    Max(lo,
        Min(inventory_skew_protection(
                imbalance_protection(volatility_protection(base, context), context),
                context),
            hi))

\* The prices of mirror_market for half the spread and the offset, in ticks.
mirrored_prices(mid_price, half, offset, up) ==
    <<RatRound(RatAdd(RatMax(RatSub(RatSub(mid_price, half), RatInt(tick_size)),
                             RatInt(1)),
                      offset), up[1]),
      RatRound(RatAdd(RatMin(RatAdd(RatAdd(mid_price, half), RatInt(tick_size)),
                             RatInt(PriceScale - 1)),
                      offset), up[2])>>

\* DynamicSpreadEngine.mirror_market: <<bid, ask>> in ticks.  random_offset is
\* random.randint(-50, 50), in units of 0.00001; up[1], up[2] decide ties.
mirror_market(context, random_offset, up) ==
    mirrored_prices(context.mid_price,
                    Rat(calculate_dynamic_spread(base_spread_bps, engine_min_spread_bps,
                                                 engine_max_spread_bps, context), 20),
                    Rat(random_offset, 100), up)

\* The prices of apply_inventory_skew_to_prices from the shifted prices.
skewed_prices(b, a, long_yes, up) ==
    <<RatRound(IF long_yes THEN RatMax(RatInt(1), b)
                           ELSE RatMin(RatInt(PriceScale - 1), b), up[1]),
      RatRound(IF long_yes THEN RatMin(RatInt(PriceScale - 1), a)
                           ELSE RatMax(RatInt(1), a), up[2])>>

\* InventorySkewManager.apply_inventory_skew_to_prices with skew_intensity
\* 0.005 (5 ticks): <<bid, ask>> in ticks; up[1], up[2] decide ties.
apply_inventory_skew_to_prices(bid_price, ask_price, inventory_skew, up) ==
    skewed_prices(RatSub(RatInt(bid_price), RatMul(inventory_skew, RatInt(5))),
                  RatAdd(RatInt(ask_price), RatMul(inventory_skew, RatInt(5))),
                  inventory_skew[1] > 0, up)

\* OrderManagementSystem.check_anti_crossing: is_valid.
check_anti_crossing(bid_price, ask_price) ==
    IF bid_price >= ask_price THEN FALSE
    ELSE (ask_price - bid_price) * 20000 >= bid_price + ask_price

\* round(x, 2) of an amount in units of 10 USD: to a thousandth of a unit.
RoundCents(x, up) == Rat(RatRound(RatMul(x, RatInt(1000)), up), 1000)

\* The exposure check of calculate_position_sizing: max(10, available * 0.8)
\* when less than the size is available, 10 USD being one unit.
limit_size(size, available_usd) ==
    IF RatLess(RatInt(available_usd), size)
    THEN RatMax(RatInt(1), Rat(available_usd * 8, 10))
    ELSE size

\* The size of the side that is in excess and of the other side.
reduced_size(inventory_skew) ==
    RatMax(RatInt(1),
           RatMul(RatInt(default_size),
                  RatSub(RatInt(1), RatSub(RatAbs(inventory_skew), Rat(1, 2)))))
raised_size == Rat(default_size * 3, 2)

\* InventorySkewManager.calculate_position_sizing: <<yes_size, no_size>>.
calculate_position_sizing(current_balance_usd, inventory_skew, up) ==
    <<RoundCents(limit_size(IF ~RatLess(Rat(6, 10), RatAbs(inventory_skew))
                            THEN RatInt(default_size)
                            ELSE IF RatLess(Rat(6, 10), inventory_skew)
                                 THEN reduced_size(inventory_skew) ELSE raised_size,
                            max_exposure_usd - current_balance_usd), up[1]),
      RoundCents(limit_size(IF ~RatLess(Rat(6, 10), RatAbs(inventory_skew))
                            THEN RatInt(default_size)
                            ELSE IF RatLess(Rat(6, 10), inventory_skew)
                                 THEN raised_size ELSE reduced_size(inventory_skew),
                            max_exposure_usd + current_balance_usd), up[2])>>

\* Steps 6 to 10 of generate_advanced_quotes alone, without the check of step 5.
priced_quotes_unchecked(prices, sizes) ==
    [raised |-> FALSE,
     yes |-> Quote(prices[1], sizes[1]),
     no |-> Quote(prices[2], sizes[2])]

\* Steps 5 to 10 of generate_advanced_quotes: the quotes for the prices and
\* the sizes, the yes quote at the bid price and the no quote at the ask price.
priced_quotes(prices, sizes) ==
    IF ~check_anti_crossing(prices[1], prices[2]) THEN NoQuotes
    ELSE [raised |-> FALSE,
          yes |-> Quote(prices[1], sizes[1]),
          no |-> Quote(prices[2], sizes[2])]

\* Step 4 of generate_advanced_quotes.
skew_mirrored(mirrored, inventory_skew, up) ==
    apply_inventory_skew_to_prices(mirrored[1], mirrored[2], inventory_skew, up)

\* Steps 3 and 4 of generate_advanced_quotes: the prices handed to
\* check_anti_crossing.
advanced_prices(context, random_offset, fp) ==
    skew_mirrored(mirror_market(context, random_offset, <<fp[1], fp[2]>>),
                  context.inventory_skew, <<fp[3], fp[4]>>)

\* Steps 3 to 10 of generate_advanced_quotes for a pricing context: the quotes
\* returned.  fp[1..6] decide the roundings that are ties.
advanced_quotes(context, current_balance_usd, random_offset, fp) ==
    priced_quotes(
        advanced_prices(context, random_offset, fp),
        calculate_position_sizing(current_balance_usd, context.inventory_skew,
                                  <<fp[5], fp[6]>>))

\* Steps 1 and 2 of generate_advanced_quotes: the pricing context.
pricing_context(history, i, mid_price, best_bid, best_ask, orderbook_data) ==
    [mid_price |-> RatInt(mid_price),
     volatility_sq |-> calculate_volatility_sq(history),
     imbalance |-> IF orderbook_data.l2_available /\ orderbook_data.yes # None
                   THEN calculate_imbalance(orderbook_data.yes[1].bids,
                                            orderbook_data.yes[1].asks)
                   ELSE <<0, 1>>,
     best_bid |-> best_bid,
     best_ask |-> best_ask,
     inventory_skew |-> calculate_inventory_skew(i)]

----------------------------------------------------------------------------
(* Calls of the quote generators *)

\* Bound: prices kept in the history (the code keeps max_history_size = 100).
MaxHistory == 3

\* Best bid and ask handed to the generators, in ticks: three sound books
\* with a whole mid, a wide one and one without a bid.
QuoteBooks == {<<240, 260>>, <<490, 510>>, <<500, 508>>, <<2, 998>>, <<0, 400>>}
\* The books whose mid the advanced engine is called with.
AdvancedBooks == {<<490, 510>>, <<500, 508>>}

\* L2 data handed to the generators.
L2Book(bids, asks) == Some([bids |-> bids, asks |-> asks])
OrderbookData ==
    {NoL2, L2(None),
     L2(L2Book(<<<<490, 1>>>>, <<<<510, 1>>>>)),
     L2(L2Book(<<<<490, 3>>, <<480, 1>>>>, <<<<510, 1>>>>)),
     L2(L2Book(<<<<490, 1>>>>, <<<<510, 2>>, <<520, 2>>>>)),
     L2(L2Book(<<>>, <<<<510, 1>>>>))}

\* The L2 data the advanced engine is called with: none, bid-heavy, ask-heavy.
AdvancedData ==
    {NoL2,
     L2(L2Book(<<<<490, 3>>, <<480, 1>>>>, <<<<510, 1>>>>)),
     L2(L2Book(<<<<490, 1>>>>, <<<<510, 2>>, <<520, 2>>>>))}

\* random.randint(-50, 50): the ends and zero.
RandomOffsets == {-50, 0, 50}

\* How ties fall in one call: the roundings of the yes (bid) leg, those of
\* the no (ask) leg, and the comparison with 0.999.
Ties == [1..3 -> BOOLEAN]

\* The record of a check_anti_crossing(bid_price, ask_price) call made by
\* caller.
CrossCall(caller, bid_price, ask_price) ==
    [caller |-> caller, bid_price |-> bid_price, ask_price |-> ask_price,
     is_valid |-> check_anti_crossing(bid_price, ask_price)]
NoCrossCall == [caller |-> "none", bid_price |-> 0, ask_price |-> 0, is_valid |-> FALSE]

\* The pairs check_anti_crossing is called with directly, in units of 2^-16
\* (exact as floats): bid above the ask, equal to it, 0.75 bps below it,
\* exactly 1 bps below it, just above 1 bps, wide, and close to 0 and to 1.
AntiCrossingPairs ==
    {<<32768, 32000>>, <<32768, 32768>>, <<40000, 40003>>, <<19999, 20001>>,
     <<40000, 40005>>, <<32000, 33500>>, <<66, 65470>>, <<65529, 65535>>}

\* The record of a call of a quote generator: the engine called, the best
\* bid and ask it was given, whether the data carried an L2 book of the yes
\* token, the mid it was given (the advanced engine) and what it returned.
QuoteCall(engine, best_bid, best_ask, l2_book, mid, result) ==
    [engine |-> engine, best_bid |-> best_bid, best_ask |-> best_ask,
     l2_book |-> l2_book, mid |-> mid, result |-> result]

QuoteInit ==
    /\ price_history = <<>>
    /\ last_mid_price = PriceScale \div 2
    /\ quoteCall = QuoteCall("none", 0, 0, FALSE, 0, NoQuotes)
    /\ crossCall = NoCrossCall

\* The fills the ledger records before quotes are asked for, as
\* <<yes_delta, no_delta, price>>: none, balanced, one-sided within the
\* exposure limits, and beyond the upper and the lower limit.
QuoteFills ==
    {<<0, 0, 500>>, <<1, 1, 500>>, <<1, 0, 500>>, <<2, 1, 500>>,
     <<3, 0, 900>>, <<0, 3, 250>>, <<-1, 2, 500>>}

FillBeforeQuoting ==
    /\ invLastPrice = 0
    /\ quoteCall.engine = "none"
    /\ \E f \in QuoteFills : Update(f[1], f[2], f[3])
    /\ UNCHANGED <<slVars, cacheVars, connVars, quoteVars, botVars, pricingVars, extVars>>

\* QuoteEngine.generate_quotes of src/src is called.
GenerateQuotesCall ==
    /\ invVariant = "core"
    /\ quoteCall.engine \in {"none", "core"}
    /\ \E book \in QuoteBooks, t \in Ties :
          quoteCall' = QuoteCall("core", book[1], book[2], FALSE, 0,
                                 generate_quotes(inv, book[1], book[2], t))
    /\ UNCHANGED <<price_history, last_mid_price, crossCall>>

\* QuoteEngine.generate_quotes of src/market_maker is called on one of books
\* with one of datas.
GenerateQuotesL2On(books, datas) ==
    /\ invVariant = "top"
    /\ \E book \in books, data \in datas, t \in Ties :
          quoteCall' = QuoteCall("l2", book[1], book[2],
                                 data.l2_available /\ data.yes # None, 0,
                                 generate_quotes_l2(inv, book[1], book[2], data,
                                     <<t[1], t[2], t[1], t[1], t[2], t[3]>>))
    /\ UNCHANGED <<price_history, last_mid_price, crossCall>>

GenerateQuotesL2Call == GenerateQuotesL2On(QuoteBooks, OrderbookData)

\* Books whose mid is within two ticks of 1 or of 0, and two in the middle.
EdgeBooks ==
    {<<998, 999>>, <<997, 999>>, <<996, 998>>, <<1, 2>>, <<1, 3>>, <<2, 4>>,
     <<490, 510>>, <<500, 508>>}

\* QuoteEngine.generate_quotes of src/market_maker is called without L2 data
\* on a book from EdgeBooks.
GenerateQuotesNearBounds == GenerateQuotesL2On(EdgeBooks, {NoL2})

\* The end of generate_advanced_quotes: the mid joins the history, and when
\* quotes are returned it becomes the last mid.
advanced_call_returns(mid_price, context, l2_book, prices, result) ==
    /\ crossCall' = CrossCall("generate_advanced_quotes", prices[1], prices[2])
    /\ price_history' = Append(price_history, mid_price)
    /\ last_mid_price' = IF result.yes # None THEN mid_price ELSE last_mid_price
    /\ quoteCall' = QuoteCall("advanced", context.best_bid, context.best_ask,
                                 l2_book, mid_price, result)

\* generate_advanced_quotes with the pricing context of its steps 1 and 2.
advanced_call(mid_price, context, l2_book) ==
    \E random_offset \in RandomOffsets, t \in [1..2 -> BOOLEAN] :
        advanced_call_returns(mid_price, context, l2_book,
            advanced_prices(context, random_offset, <<t[1], t[2], t[1], t[2], t[1], t[2]>>),
            advanced_quotes(context, inv.net_exposure_usd, random_offset,
                            <<t[1], t[2], t[1], t[2], t[1], t[2]>>))

\* AdvancedQuoteEngine.generate_advanced_quotes is called with the mid of a book.
GenerateAdvancedQuotesCall ==
    /\ invVariant = "core"
    /\ quoteCall.engine \in {"none", "advanced"}
    /\ Len(price_history) < MaxHistory
    /\ \E book \in AdvancedBooks, data \in AdvancedData :
          advanced_call((book[1] + book[2]) \div 2,
                        pricing_context(Append(price_history, (book[1] + book[2]) \div 2),
                                        inv, (book[1] + book[2]) \div 2,
                                        book[1], book[2], data),
                        data.l2_available /\ data.yes # None)

\* OrderManagementSystem.check_anti_crossing is called on a pair of prices.
\* The function reads and writes no state of the engine, so the direct calls
\* are made on the engine that has not quoted yet.
CheckAntiCrossingCall ==
    /\ quoteCall.engine = "none"
    /\ \E pair \in AntiCrossingPairs : crossCall' = CrossCall("direct", pair[1], pair[2])
    /\ UNCHANGED <<price_history, last_mid_price, quoteCall>>

----------------------------------------------------------------------------
(* MarketMakerBot and the PolymarketRestClient calls it makes *)

\* Bound: the wall clock, in milliseconds.
MaxTime == 7000

quote_refresh_rate_ms == 1000
cache_ttl_ms == 5000

\* The wall clock when the bot is constructed: time.time() is far above the
\* refresh rate, so that the first refresh is never held back.
StartTime == quote_refresh_rate_ms

\* How long a request to the gateway takes.
Durations == {0, 500}

\* What GET /markets/{id} answers: an error (None), a market with a book, or
\* a market without bestBid and bestAsk (the defaults 0 and 1 are taken).
Book(best_bid, best_ask) == Some([best_bid |-> best_bid, best_ask |-> best_ask])
\* float("nan"), which float() makes of a bestBid or bestAsk of "NaN": the
\* model's stand-in is a number no price takes; no comparison with it holds.
NaN == -1
Responses == {None, Book(490, 510), Book(0, PriceScale), Book(NaN, NaN)}

\* The clients cleanup() closes, in its order.
Clients == <<"rest_client", "ws_client", "order_executor", "auto_redeem", "market_discovery">>

\* The requests that cancel orders at the gateway.
CancelRequests == {"cancel_order", "cancel_all_orders", "batch_cancel_orders"}

\* The bot after its construction at wall-clock time start.
BotInitAt(start) ==
    /\ bot_running = FALSE
    /\ market_id = None
    /\ current_orderbook = None
    /\ last_quote_time = 0
    /\ botPc = "constructed"
    /\ cyclePc = "idle"
    /\ redeemPc = "idle"
    /\ quotes_generated = 0
    /\ close_calls = <<>>
    /\ market_info_cache = None
    /\ market_cache_time = 0
    /\ now = start
    /\ gateway_requests = {}
    /\ cycle_errors = 0

BotInit == BotInitAt(StartTime)

\* PolymarketRestClient.get_market_info: the cached data while it is younger
\* than the TTL, else the response to a request that takes d.
CacheFresh == market_info_cache # None /\ now - market_cache_time < cache_ttl_ms

market_info(response) == IF CacheFresh THEN market_info_cache ELSE response

get_market_info(response, d) ==
    IF CacheFresh
    THEN UNCHANGED <<market_info_cache, market_cache_time, now, gateway_requests>>
    ELSE /\ now + d <= MaxTime
         /\ now' = now + d
         /\ gateway_requests' = gateway_requests \cup {"get_market_info"}
         /\ IF response = None                         \* raise_for_status raised
            THEN UNCHANGED <<market_info_cache, market_cache_time>>
            ELSE /\ market_info_cache' = response
                 /\ market_cache_time' = now + d

\* MarketMakerBot.update_orderbook, with PolymarketRestClient.get_orderbook.
update_orderbook(response, d) ==
    IF market_id = None
    THEN UNCHANGED <<current_orderbook, market_info_cache, market_cache_time, now,
                     gateway_requests>>
    ELSE /\ get_market_info(response, d)
         /\ current_orderbook' = IF market_info(response) = None
                                 THEN current_orderbook
                                 ELSE market_info(response)

\* bootstrap's _handle_signal: SIGINT or SIGTERM arrives while run() is running.
SignalReceived ==
    /\ botPc \in {"discovering", "gathering"}
    /\ bot_running' = FALSE
    /\ UNCHANGED <<market_id, current_orderbook, last_quote_time, botPc, cyclePc, redeemPc,
                   quotes_generated, close_calls, market_info_cache, market_cache_time,
                   now, gateway_requests,
                   cycle_errors>>

\* run() up to its call of discover_market.
RunStart ==
    /\ botPc = "constructed"
    /\ bot_running' = TRUE
    /\ botPc' = "discovering"
    /\ UNCHANGED <<market_id, current_orderbook, last_quote_time, cyclePc, redeemPc,
                   quotes_generated, close_calls, market_info_cache, market_cache_time,
                   now, gateway_requests,
                   cycle_errors>>

\* discover_market returns to run(): without a market run() returns, with one
\* it starts the two loops.  has_id: the settings or the selection gave an id.
DiscoverMarket ==
    /\ botPc = "discovering"
    /\ \E has_id \in BOOLEAN, response \in Responses, d \in Durations :
          IF ~has_id
          THEN /\ botPc' = "returned"
               /\ UNCHANGED <<market_id, cyclePc, redeemPc, market_info_cache,
                              market_cache_time, now, gateway_requests>>
          ELSE /\ market_id' = Some("market")
               /\ get_market_info(response, d)
               /\ IF market_info(response) = None
                  THEN botPc' = "returned" /\ UNCHANGED <<cyclePc, redeemPc>>
                  ELSE botPc' = "gathering" /\ cyclePc' = "loop" /\ redeemPc' = "loop"
    /\ UNCHANGED <<bot_running, current_orderbook, last_quote_time, quotes_generated,
                   close_calls,
                   cycle_errors>>

\* run_cancel_replace_cycle: "while self.running".
CycleLoop ==
    /\ cyclePc = "loop"
    /\ cyclePc' = IF bot_running THEN "updating" ELSE "done"
    /\ UNCHANGED <<bot_running, market_id, current_orderbook, last_quote_time, botPc,
                   redeemPc, quotes_generated, close_calls, market_info_cache,
                   market_cache_time, now, gateway_requests,
                   cycle_errors>>

\* run_cancel_replace_cycle: "await self.update_orderbook()".
UpdateOrderbook ==
    /\ cyclePc = "updating"
    /\ \E response \in Responses, d \in Durations : update_orderbook(response, d)
    /\ cyclePc' = "refreshing"
    /\ UNCHANGED <<bot_running, market_id, last_quote_time, botPc, redeemPc,
                   quotes_generated, close_calls,
                   cycle_errors>>

\* The book refresh_quotes reads is one it must not quote on.
IsNaN(orderbook) == orderbook # None /\ orderbook[1].best_bid = NaN

Degenerate(orderbook) ==
    \/ orderbook = None          \* best_bid = 0, best_ask = 1
    \/ /\ ~IsNaN(orderbook)
       /\ \/ orderbook[1].best_bid <= 0
          \/ orderbook[1].best_ask >= PriceScale
          \/ orderbook[1].best_bid >= orderbook[1].best_ask

\* What generate_quotes returns on a book of NaN: every comparison with the
\* mid fails, so both quotes are built, with NaN prices and the base size.
NaNQuotes ==
    [raised |-> FALSE, yes |-> Quote(NaN, <<default_size, 1>>),
     no |-> Quote(NaN, <<default_size, 1>>)]

\* refresh_quotes raises: on a book of NaN the quotes are generated and then
\* "spread_bps = int(... * 10000)" raises ValueError.
refresh_raises(book) == ~Degenerate(book) /\ market_id # None /\ IsNaN(book)

\* refresh_quotes from "orderbook = self.current_orderbook", for the book it
\* ends up with (book) and the float ties of generate_quotes (fp).
quote_on(book, fp) ==
    IF Degenerate(book) \/ market_id = None
    THEN UNCHANGED <<quoteCall, quotes_generated>>
    ELSE /\ quoteCall' = QuoteCall("core", book[1].best_bid, book[1].best_ask, FALSE, 0,
                                   IF IsNaN(book) THEN NaNQuotes
                                   ELSE generate_quotes(inv, book[1].best_bid,
                                                        book[1].best_ask, fp))
         /\ quotes_generated' = quotes_generated + 1

\* A run_cancel_replace_cycle without its "except Exception": what
\* refresh_quotes raises ends the loop.
refresh_returns_or_leaves(raised) ==
    /\ cyclePc' = IF raised THEN "done" ELSE "sleeping"
    /\ cycle_errors' = cycle_errors

\* run_cancel_replace_cycle after refresh_quotes: the sleep of the try block,
\* or, when refresh_quotes raised, the except block, which logs and backs off.
refresh_returns(raised) ==
    /\ cyclePc' = IF raised THEN "backoff" ELSE "sleeping"
    /\ cycle_errors' = cycle_errors + (IF raised THEN 1 ELSE 0)

\* run_cancel_replace_cycle: "await self.refresh_quotes(market_info)".
RefreshQuotes ==
    /\ cyclePc = "refreshing"
    /\ IF now - last_quote_time < quote_refresh_rate_ms
       THEN /\ UNCHANGED <<last_quote_time, current_orderbook, market_info_cache,
                           market_cache_time, now, gateway_requests, quoteCall,
                           quotes_generated>>
            /\ refresh_returns(FALSE)
       ELSE /\ last_quote_time' = now
            /\ IF current_orderbook = None
               THEN \E response \in Responses, d \in Durations :
                        update_orderbook(response, d)
               ELSE UNCHANGED <<current_orderbook, market_info_cache, market_cache_time,
                                now, gateway_requests>>
            /\ \E fp \in Ties : quote_on(current_orderbook', fp)
            /\ refresh_returns(refresh_raises(current_orderbook'))
    /\ UNCHANGED <<bot_running, market_id, botPc, redeemPc, close_calls, price_history,
                   last_mid_price, crossCall>>

\* The pause of the except block of run_cancel_replace_cycle, in ms.
backoff_ms == 1000

\* run_cancel_replace_cycle: "await asyncio.sleep(1)" of the except block ends.
CycleBackoff ==
    /\ cyclePc = "backoff"
    /\ now + backoff_ms <= MaxTime
    /\ now' = now + backoff_ms
    /\ cyclePc' = "loop"
    /\ UNCHANGED <<bot_running, market_id, current_orderbook, last_quote_time, botPc,
                   redeemPc, quotes_generated, close_calls, market_info_cache,
                   market_cache_time, gateway_requests, cycle_errors>>

\* run_cancel_replace_cycle: the sleep of one refresh period ends.
CycleSleep ==
    /\ cyclePc = "sleeping"
    /\ now + quote_refresh_rate_ms <= MaxTime
    /\ now' = now + quote_refresh_rate_ms
    /\ cyclePc' = "loop"
    /\ UNCHANGED <<bot_running, market_id, current_orderbook, last_quote_time, botPc,
                   redeemPc, quotes_generated, close_calls, market_info_cache,
                   market_cache_time, gateway_requests,
                   cycle_errors>>

\* run_auto_redeem: "while self.running" and one auto_redeem_all, which asks
\* for the positions and redeems those it finds (redeems tells whether any).
RedeemLoop ==
    /\ redeemPc = "loop"
    /\ IF bot_running
       THEN /\ redeemPc' = "sleeping"
            /\ \E redeems \in BOOLEAN :
                  gateway_requests' = gateway_requests \cup
                      (IF redeems THEN {"get_positions", "redeem_position"}
                                  ELSE {"get_positions"})
       ELSE redeemPc' = "done" /\ UNCHANGED gateway_requests
    /\ UNCHANGED <<bot_running, market_id, current_orderbook, last_quote_time, botPc,
                   cyclePc, quotes_generated, close_calls, market_info_cache,
                   market_cache_time, now,
                   cycle_errors>>

\* run_auto_redeem: its sleep ends.
RedeemSleep ==
    /\ redeemPc = "sleeping"
    /\ redeemPc' = "loop"
    /\ UNCHANGED <<bot_running, market_id, current_orderbook, last_quote_time, botPc,
                   cyclePc, quotes_generated, close_calls, market_info_cache,
                   market_cache_time, now, gateway_requests,
                   cycle_errors>>

\* run(): gather returns when both loops have ended, and cleanup() begins.
CleanupStart ==
    /\ botPc = "gathering"
    /\ cyclePc = "done"
    /\ redeemPc = "done"
    /\ bot_running' = FALSE
    /\ botPc' = "cleanup"
    /\ UNCHANGED <<market_id, current_orderbook, last_quote_time, cyclePc, redeemPc,
                   quotes_generated, close_calls, market_info_cache, market_cache_time,
                   now, gateway_requests,
                   cycle_errors>>

\* cleanup(): the next close() is called; it returns (ok), or raises and the
\* exception leaves cleanup() and run().
CleanupClose ==
    /\ botPc = "cleanup"
    /\ close_calls' = Append(close_calls, Clients[Len(close_calls) + 1])
    /\ \E ok \in BOOLEAN :
          botPc' = IF ~ok THEN "raised"
                   ELSE IF Len(close_calls) + 1 = Len(Clients) THEN "done"
                   ELSE "cleanup"
    /\ UNCHANGED <<bot_running, market_id, current_orderbook, last_quote_time, cyclePc,
                   redeemPc, quotes_generated, market_info_cache, market_cache_time,
                   now, gateway_requests,
                   cycle_errors>>

----------------------------------------------------------------------------
(* Calls of DynamicSpreadEngine.calculate_dynamic_spread *)

\* The engines: <<base_spread_bps, min_spread_bps, max_spread_bps>>.  The
\* defaults of the class, the engine AdvancedQuoteEngine builds, a base of
\* zero, a base above the maximum, a negative base, and a single-point range
\* above the base.
SpreadConfigs ==
    {<<10, 5, 500>>,
     <<base_spread_bps, engine_min_spread_bps, engine_max_spread_bps>>,
     <<0, 0, 100>>, <<600, 5, 500>>, <<-10, 5, 500>>, <<3, 20, 20>>}

\* Volatilities 0, 0.3, 0.4, 0.5, 0.7 and 1, as their squares.
VolatilitiesSq == {<<0, 1>>, <<9, 100>>, <<16, 100>>, <<1, 4>>, <<49, 100>>, <<1, 1>>}
\* Imbalances and inventory skews in [-1, 1].
Imbalances == {<<-1, 1>>, <<-1, 2>>, <<0, 1>>, <<3, 10>>, <<1, 3>>, <<2, 5>>, <<1, 1>>}
Skews == {<<-1, 1>>, <<0, 1>>, <<3, 5>>, <<7, 10>>, <<1, 1>>}

PricingContext(volatility_sq, imbalance, inventory_skew) ==
    [mid_price |-> RatInt(PriceScale \div 2),
     volatility_sq |-> volatility_sq,
     imbalance |-> imbalance,
     best_bid |-> (PriceScale \div 2) - 10,
     best_ask |-> (PriceScale \div 2) + 10,
     inventory_skew |-> inventory_skew]

PricingContexts ==
    {PricingContext(v, i, k) : v \in VolatilitiesSq, i \in Imbalances, k \in Skews}

NoFillCall ==
    [called |-> FALSE, order_id |-> "", filled_size |-> 0, total_size |-> 0,
     result |-> [should_cancel |-> FALSE, remaining_size |-> None]]

NoSpreadCall ==
    [called |-> FALSE, context |-> PricingContext(<<0, 1>>, <<0, 1>>, <<0, 1>>),
     result |-> 0]

\* A DynamicSpreadEngine after DynamicSpreadEngine(base, lo, hi) and an
\* OrderManagementSystem whose active_orders holds orders.
PricingInitWith(config, orders) ==
    /\ engine_config = config
    /\ spreadCall = NoSpreadCall
    /\ active_orders = orders
    /\ fillCall = NoFillCall

\* The engines AdvancedQuoteEngine.__init__ builds.
PricingInit ==
    PricingInitWith(<<base_spread_bps, engine_min_spread_bps, engine_max_spread_bps>>, {})

\* calculate_dynamic_spread(context) is called on the engine.
CalculateDynamicSpreadCall ==
    /\ \E context \in PricingContexts :
          spreadCall' = [called |-> TRUE, context |-> context,
                         result |-> calculate_dynamic_spread(engine_config[1],
                                        engine_config[2], engine_config[3], context)]
    /\ UNCHANGED <<engine_config, active_orders, fillCall>>

\* random.randint(-50, 50): every value.
Jitters == -50 .. 50

\* The pricing contexts of the end-to-end scenarios, at mid 0.50: volatility
\* 0.1, 0.4 or 0.5, an imbalance of 0, 0.4 or 1 and a skew of 0, 0.6 or 0.7.
ScenarioContexts ==
    {PricingContext(v, i, k) :
        v \in {<<1, 100>>, <<16, 100>>, <<1, 4>>},
        i \in {<<0, 1>>, <<2, 5>>, <<1, 1>>},
        k \in {<<0, 1>>, <<3, 5>>, <<7, 10>>}}

\* generate_advanced_quotes from its step 3 on, for a pricing context that
\* steps 1 and 2 have built at mid 0.50: mirror_market calls
\* calculate_dynamic_spread on the context, the prices are skewed and
\* checked, and the quotes are returned.  These steps read nothing an earlier
\* call has left, so the scenario is run on the engine as it is built.
GenerateAdvancedQuotesOnContext ==
    /\ quoteCall.engine = "none"
    /\ engine_config = <<base_spread_bps, engine_min_spread_bps, engine_max_spread_bps>>
    /\ \E context \in ScenarioContexts, random_offset \in Jitters, t \in [1..2 -> BOOLEAN] :
          /\ spreadCall' = [called |-> TRUE, context |-> context,
                            result |-> calculate_dynamic_spread(engine_config[1],
                                           engine_config[2], engine_config[3], context)]
          /\ advanced_call_returns(PriceScale \div 2, context, FALSE,
                 advanced_prices(context, random_offset,
                                 <<t[1], t[2], t[1], t[2], t[1], t[2]>>),
                 advanced_quotes(context, inv.net_exposure_usd, random_offset,
                                 <<t[1], t[2], t[1], t[2], t[1], t[2]>>))
    /\ UNCHANGED <<engine_config, active_orders, fillCall>>

----------------------------------------------------------------------------
(* Calls of InventorySkewManager.check_critical_skew *)

\* What check_critical_skew returns: side_to_close is "YES", "NO" or None,
\* size a ratio in thousandths of a dollar (a position times a price in ticks).
HedgeResult(should_hedge, side_to_close, size) ==
    [should_hedge |-> should_hedge, side_to_close |-> side_to_close, size |-> size]

\* check_critical_skew closing the whole position instead of half of it.
check_critical_skew_whole(inventory_skew, yes_position, no_position, current_price) ==
    IF RatLess(Rat(8, 10), RatAbs(inventory_skew))
    THEN IF inventory_skew[1] > 0
         THEN HedgeResult(TRUE, Some("YES"), RatInt(yes_position * current_price))
         ELSE HedgeResult(TRUE, Some("NO"), RatInt(no_position * current_price))
    ELSE HedgeResult(FALSE, None, RatInt(0))

\* InventorySkewManager.check_critical_skew.
check_critical_skew(inventory_skew, yes_position, no_position, current_price) ==
    IF RatLess(Rat(8, 10), RatAbs(inventory_skew))
    THEN IF inventory_skew[1] > 0
         THEN HedgeResult(TRUE, Some("YES"), Rat(yes_position * current_price, 2))
         ELSE HedgeResult(TRUE, Some("NO"), Rat(no_position * current_price, 2))
    ELSE HedgeResult(FALSE, None, RatInt(0))

\* The skews, positions and prices check_critical_skew is called with: skews
\* on both sides of the threshold 0.8 and at it.
HedgeSkews ==
    {<<-1, 1>>, <<-17, 20>>, <<-4, 5>>, <<0, 1>>, <<3, 5>>, <<4, 5>>, <<81, 100>>,
     <<17, 20>>, <<1, 1>>}
HedgePositions == {0, 40, 250}
HedgePrices == {400, 500}

NoHedgeCall ==
    [called |-> FALSE, inventory_skew |-> <<0, 1>>, yes_position |-> 0,
     no_position |-> 0, current_price |-> 0, result |-> HedgeResult(FALSE, None, <<0, 1>>)]

NoUpdateCall ==
    [called |-> FALSE, current_mid_price |-> 0, last_mid_price |-> 0,
     orders |-> {}, time_since_update |-> 0, result |-> FALSE]

\* InventorySkewManager holds no state of its own; OrderManagementSystem
\* starts with last_update_time = 0.0.
\* yes_size and no_size are what get_quote_size_yes and get_quote_size_no
\* return, sizing what calculate_position_sizing returns.
NoSizeCall ==
    [called |-> FALSE, variant |-> "none", net_exposure_usd |-> 0, base_size |-> 0,
     price |-> 0, yes_size |-> <<0, 1>>, no_size |-> <<0, 1>>,
     sizing |-> <<<<0, 1>>, <<0, 1>>>>]

NoRiskCall ==
    [called |-> FALSE, side |-> "", size_usd |-> 0, inventory |-> NewInventory,
     ok |-> FALSE, reason |-> ""]

OmsInit ==
    /\ hedgeCall = NoHedgeCall
    /\ last_update_time = 0
    /\ updateCall = NoUpdateCall
    /\ sizeCall = NoSizeCall
    /\ riskCall = NoRiskCall

\* check_critical_skew(inventory_skew, yes_position, no_position, current_price)
\* is called.
CheckCriticalSkewCall ==
    /\ \E k \in HedgeSkews, y \in HedgePositions, n \in HedgePositions, p \in HedgePrices :
          hedgeCall' = [called |-> TRUE, inventory_skew |-> k, yes_position |-> y,
                        no_position |-> n, current_price |-> p,
                        result |-> check_critical_skew(k, y, n, p)]
    /\ UNCHANGED <<last_update_time, updateCall, sizeCall, riskCall>>

----------------------------------------------------------------------------
(* Calls of the sizing methods *)

\* Base sizes and prices (ticks) the sizing methods are called with.
BaseSizes == {default_size, 5 * default_size}
SizingPrices == {1, 500, 999}

\* get_quote_size_yes(base_size, price) and get_quote_size_no(base_size, price)
\* are called on the inventory manager, and calculate_position_sizing on a
\* balanced portfolio with the manager's net exposure as the balance.
QuoteSizeCall ==
    /\ \E base_size \in BaseSizes, price \in SizingPrices, up \in [1..2 -> BOOLEAN] :
          sizeCall' =
             [called |-> TRUE, variant |-> invVariant,
              net_exposure_usd |-> inv.net_exposure_usd,
              base_size |-> base_size, price |-> price,
              yes_size |-> IF invVariant = "core"
                           THEN get_quote_size_yes(inv, base_size, price).size
                           ELSE get_quote_size_yes_top(inv, base_size, price),
              no_size |-> IF invVariant = "core"
                          THEN get_quote_size_no(inv, base_size, price).size
                          ELSE get_quote_size_no_top(inv, base_size, price),
              sizing |-> calculate_position_sizing(inv.net_exposure_usd, <<0, 1>>,
                                                   <<up[1], up[2]>>)]
    /\ UNCHANGED <<hedgeCall, last_update_time, updateCall, riskCall>>

----------------------------------------------------------------------------
(* RiskManager of src/src/risk/risk_manager.py *)

\* Settings.max_position_size_usd and Settings.inventory_skew_limit (0.3).
max_position_size_usd == 500
inventory_skew_limit == <<3, 10>>

\* check_exposure_limits(proposed_size_usd, side) on the ledger i.
check_exposure_limits(i, proposed_size_usd, side) ==
    IF side = "BUY"
    THEN ~(i.net_exposure_usd + proposed_size_usd > max_exposure_usd)
    ELSE IF side = "SELL"
         THEN ~(i.net_exposure_usd - proposed_size_usd < min_exposure_usd)
         ELSE TRUE

check_position_size(size_usd) == ~(size_usd > max_position_size_usd)

\* check_inventory_skew: the skew of the ledger as it is.
check_inventory_skew(i) == ~RatLess(inventory_skew_limit, Inventory_get_skew(i))

\* validate_order(side, size_usd): (ok, reason).
validate_order(i, side, size_usd) ==
    IF ~check_position_size(size_usd)
    THEN [ok |-> FALSE, reason |-> "Position size exceeds limit"]
    ELSE IF ~check_exposure_limits(i, size_usd, side)
         THEN [ok |-> FALSE, reason |-> "Exposure limit exceeded"]
         ELSE IF ~check_inventory_skew(i)
              THEN [ok |-> FALSE, reason |-> "Inventory skew too high"]
              ELSE [ok |-> TRUE, reason |-> "OK"]

\* The fills that build the ledger an order is validated on: <<yes_delta,
\* no_delta, price>>, one position unit being 10,000 contracts.
RiskFills ==
    {<<0, 0, 500>>, <<1, 1, 500>>, <<1, 0, 500>>, <<2, 1, 500>>, <<3, 2, 500>>,
     <<7, 4, 500>>, <<4, 7, 500>>, <<3, 0, 900>>, <<0, 3, 250>>, <<5, 4, 500>>}
OrderSides == {"BUY", "SELL", "HOLD"}
OrderSizes == {10, 100, 400, 600}

\* The ledger is filled once, before any order is validated.
FillBeforeValidating ==
    /\ invLastPrice = 0
    /\ ~riskCall.called
    /\ \E f \in RiskFills :
          /\ inv' = Inventory_update(inv, f[1], f[2], f[3])
          /\ invSumYes' = invSumYes + f[1]
          /\ invSumNo' = invSumNo + f[2]
          /\ invLastPrice' = f[3]
    /\ UNCHANGED invVariant

\* validate_order(side, size_usd) is called.
ValidateOrderCall ==
    /\ \E side \in OrderSides, size_usd \in OrderSizes :
          riskCall' = [called |-> TRUE, side |-> side, size_usd |-> size_usd,
                       inventory |-> inv,
                       ok |-> validate_order(inv, side, size_usd).ok,
                       reason |-> validate_order(inv, side, size_usd).reason]
    /\ UNCHANGED <<hedgeCall, last_update_time, updateCall, sizeCall>>

----------------------------------------------------------------------------
(* Calls of OrderManagementSystem.should_update_orders *)

\* OrderManagementSystem.__init__: the tolerance of a price move, in bps.
price_tolerance_bps == 10
\* The age of the last update beyond which the orders are refreshed, in ms.
update_interval_ms == 2000

\* should_update_orders for the orders of active_orders, the time since
\* last_update_time in ms and the two mids in ticks, last_mid_price > 0:
\* price_change_bps = |current - last| / last * 10000.
should_update_orders(orders, time_since_update, current_mid, last_mid) ==
    IF orders = {}
    THEN FALSE
    ELSE \/ RatLess(RatInt(price_tolerance_bps),
                    Rat(Abs(current_mid - last_mid) * 10000, last_mid))
         \/ time_since_update > update_interval_ms

\* time.time(), in ms: a clock that stands near its origin, and one that has
\* run for a long time.
ClockReadings == {1000, 2000, 2001, 2000000000}
\* Mid prices in ticks.
UpdateMids == {400, 499, 500, 501, 502}

\* should_update_orders(current_mid_price, last_mid_price) is called; it reads
\* the clock and writes nothing.
ShouldUpdateOrdersCall ==
    /\ \E t \in ClockReadings, c \in UpdateMids, l \in UpdateMids :
          updateCall' = [called |-> TRUE, current_mid_price |-> c, last_mid_price |-> l,
                         orders |-> active_orders,
                         time_since_update |-> t - last_update_time,
                         result |-> should_update_orders(active_orders,
                                        t - last_update_time, c, l)]
    /\ UNCHANGED <<hedgeCall, last_update_time, sizeCall, riskCall>>

----------------------------------------------------------------------------
(* Calls of OrderManagementSystem.handle_partial_fill *)

OrderIds == {"order-1", "order-2"}

\* Sizes of an order and of its filled part.
TotalSizes == {5, 10, 50, 100}
FilledSizes == {0, 1, 2, 4, 5, 8, 9, 10, 19, 20, 21, 40, 79, 80, 81, 100}

\* What handle_partial_fill returns: should_cancel, and remaining_size when
\* the dictionary has that key.
FillResult(should_cancel, remaining_size) ==
    [should_cancel |-> should_cancel, remaining_size |-> remaining_size]

\* handle_partial_fill with the upper bound of the middle band left out
\* (0.2 <= fill_ratio < 0.8).
handle_partial_fill_open(orders, order_id, filled_size, total_size) ==
    IF order_id \notin orders THEN FillResult(TRUE, None)
    ELSE IF filled_size * 10 < total_size * 2
         THEN FillResult(FALSE, Some(total_size))
         ELSE IF filled_size * 10 < total_size * 8
              THEN FillResult(FALSE, Some(Max(10, total_size - filled_size)))
              ELSE FillResult(TRUE, Some(0))

\* OrderManagementSystem.handle_partial_fill for total_size > 0; fill_ratio
\* is filled_size / total_size, compared with 0.2 and 0.8.
handle_partial_fill(orders, order_id, filled_size, total_size) ==
    IF order_id \notin orders THEN FillResult(TRUE, None)
    ELSE IF filled_size * 10 < total_size * 2
         THEN FillResult(FALSE, Some(total_size))
         ELSE IF filled_size * 10 <= total_size * 8
              THEN FillResult(FALSE, Some(Max(10, total_size - filled_size)))
              ELSE FillResult(TRUE, Some(0))

\* handle_partial_fill(order_id, filled_size, total_size) is called.
HandlePartialFillCall ==
    /\ \E order_id \in OrderIds, filled_size \in FilledSizes, total_size \in TotalSizes :
          fillCall' = [called |-> TRUE, order_id |-> order_id,
                       filled_size |-> filled_size, total_size |-> total_size,
                       result |-> handle_partial_fill(active_orders, order_id,
                                                      filled_size, total_size)]
    /\ UNCHANGED <<engine_config, spreadCall, active_orders>>

----------------------------------------------------------------------------
(* PolymarketWebSocketOrderbook: _process_message step by step, next to a    *)
(* reader of the cache                                                       *)

\* Bound: callbacks registered.
MaxCallbacks == 1

\* The order-book messages of the feed: two sound books for "yes" that differ
\* on both sides, one for "no", and messages that fail validation: no token
\* id, no bids, asks that are all skipped, a best bid of 0, a best ask of 1,
\* and a best bid above the best ask.
FeedBooks ==
    {[token_id |-> "yes", bids |-> <<Level(400)>>, asks |-> <<Level(600)>>],
     [token_id |-> "yes", bids |-> <<Level(450)>>, asks |-> <<Level(550)>>],
     [token_id |-> "no", bids |-> <<Level(400)>>, asks |-> <<Level(600)>>],
     [token_id |-> NoToken, bids |-> <<Level(400)>>, asks |-> <<Level(600)>>],
     [token_id |-> "yes", bids |-> <<>>, asks |-> <<Level(600)>>],
     [token_id |-> "yes", bids |-> <<Level(400)>>,
      asks |-> <<[ok |-> FALSE, price |-> 0, size |-> 0]>>],
     [token_id |-> "yes", bids |-> <<Level(0)>>, asks |-> <<Level(600)>>],
     [token_id |-> "no", bids |-> <<Level(400)>>, asks |-> <<Level(PriceScale)>>],
     [token_id |-> "yes", bids |-> <<Level(600)>>, asks |-> <<Level(400)>>]}

\* What _process_message is handed: text that is not JSON, a JSON message
\* that is no order book, or an order-book message.
FeedMessage(n, kind, data) == [n |-> n, kind |-> kind, data |-> data]
NoBook == [token_id |-> NoToken, bids |-> <<>>, asks |-> <<>>]

\* What the reader holds for a token: whether it has looked it up, and the
\* entry it got.
ReadEntry(read, entry) == [read |-> read, entry |-> entry]
NotRead == ReadEntry(FALSE, None)

FeedInit ==
    /\ cache_lock = "free"
    /\ procPc = "idle"
    /\ procMessage = FeedMessage(0, "none", NoBook)
    /\ update_callbacks = 0
    /\ callback_calls = 0
    /\ readerPc = "idle"
    /\ readTokens = <<>>
    /\ readResult = [t \in Tokens |-> NotRead]
    /\ written = [t \in Tokens |-> {}]

\* register_callback
RegisterCallback ==
    /\ update_callbacks < MaxCallbacks
    /\ update_callbacks' = update_callbacks + 1
    /\ UNCHANGED <<cacheVars, cache_lock, procPc, procMessage, callback_calls,
                   readerPc, readTokens, readResult, written>>

\* An update in place instead: the bids of the cached snapshot are overwritten
\* and its asks are left for later.
merge_entry(cache, snapshot) ==
    [cache EXCEPT ![snapshot.token_id] =
        IF @ = None THEN Some(snapshot)
        ELSE Some(OrderbookSnapshot(snapshot.token_id, snapshot.bids, @[1].asks))]

\* "self._orderbook_cache[snapshot.token_id] = snapshot": the entry of the
\* token is replaced by the new snapshot.
replace_entry(cache, snapshot) == [cache EXCEPT ![snapshot.token_id] = Some(snapshot)]

\* _process_message from "snapshot = self._parse_orderbook_message(data)" to
\* the cache lock, for what the parser returned.
process_parsed(data, snapshot) ==
    IF snapshot = None
    THEN /\ procPc' = "idle"
         /\ UNCHANGED <<updates_processed, written>>
    ELSE /\ updates_processed' = updates_processed + 1
         /\ written' = [written EXCEPT ![data.token_id] = @ \cup {snapshot[1]}]
         /\ procPc' = "acquiring"

\* _process_message is called with text that is not JSON: json.loads raises
\* JSONDecodeError, which is caught.
FeedProcessBadJson ==
    /\ procPc = "idle"
    /\ procMessage.n < MaxMessages
    /\ procMessage' = FeedMessage(procMessage.n + 1, "bad_json", NoBook)
    /\ UNCHANGED <<cacheVars, cache_lock, procPc, update_callbacks, callback_calls,
                   readerPc, readTokens, readResult, written>>

\* _process_message is called with a JSON message that is no order book.
FeedProcessOther ==
    /\ procPc = "idle"
    /\ procMessage.n < MaxMessages
    /\ procMessage' = FeedMessage(procMessage.n + 1, "other", NoBook)
    /\ messages_received' = messages_received + 1
    /\ UNCHANGED <<orderbook_cache, updates_processed, cache_lock, procPc,
                   update_callbacks, callback_calls, readerPc, readTokens, readResult,
                   written>>

\* _process_message is called with an order-book message, up to the point
\* where it returns or waits for the cache lock.
FeedProcessBook ==
    /\ procPc = "idle"
    /\ procMessage.n < MaxMessages
    /\ \E data \in FeedBooks :
          /\ procMessage' = FeedMessage(procMessage.n + 1, "book", data)
          /\ process_parsed(data, parse_orderbook_message(data))
    /\ messages_received' = messages_received + 1
    /\ UNCHANGED <<orderbook_cache, cache_lock, update_callbacks, callback_calls,
                   readerPc, readTokens, readResult>>

\* "async with self._cache_lock" of _process_message: the lock is taken.
FeedAcquire ==
    /\ procPc = "acquiring"
    /\ cache_lock = "free"
    /\ cache_lock' = "writer"
    /\ procPc' = "locked"
    /\ UNCHANGED <<cacheVars, procMessage, update_callbacks, callback_calls,
                   readerPc, readTokens, readResult, written>>

\* The cache entry is written and the lock released.
FeedWrite ==
    /\ procPc = "locked"
    /\ orderbook_cache' =
           replace_entry(orderbook_cache, parse_orderbook_message(procMessage.data)[1])
    /\ cache_lock' = "free"
    /\ procPc' = IF update_callbacks > 0 THEN "callbacks" ELSE "idle"
    /\ UNCHANGED <<messages_received, updates_processed, procMessage, update_callbacks,
                   callback_calls, readerPc, readTokens, readResult, written>>

\* The callbacks are invoked with the snapshot; what a callback raises is
\* caught and logged.
FeedCallbacks ==
    /\ procPc = "callbacks"
    /\ callback_calls' = callback_calls + update_callbacks
    /\ procPc' = "idle"
    /\ UNCHANGED <<cacheVars, cache_lock, procMessage, update_callbacks,
                   readerPc, readTokens, readResult, written>>

\* get_orderbook(token_id) or get_multiple_orderbooks(token_ids) is called.
ReaderCall ==
    /\ readerPc = "idle"
    /\ \E token_ids \in {<<"yes">>, <<"no">>, <<"yes", "no">>} : readTokens' = token_ids
    /\ readResult' = [t \in Tokens |-> NotRead]
    /\ readerPc' = "acquiring"
    /\ UNCHANGED <<cacheVars, cache_lock, procPc, procMessage, update_callbacks,
                   callback_calls, written>>

\* "async with self._cache_lock" of the reader: the lock is taken.
ReaderAcquire ==
    /\ readerPc = "acquiring"
    /\ cache_lock = "free"
    /\ cache_lock' = "reader"
    /\ readerPc' = "reading"
    /\ UNCHANGED <<cacheVars, procPc, procMessage, update_callbacks, callback_calls,
                   readTokens, readResult, written>>

\* "self._orderbook_cache.get(token_id)" for the next token.
ReaderGet ==
    /\ readerPc = "reading"
    /\ readTokens # <<>>
    /\ readResult' = [readResult EXCEPT ![Head(readTokens)] =
                                   ReadEntry(TRUE, get_orderbook(Head(readTokens)))]
    /\ readTokens' = Tail(readTokens)
    /\ UNCHANGED <<cacheVars, cache_lock, procPc, procMessage, update_callbacks,
                   callback_calls, readerPc, written>>

\* The reader leaves the lock and returns.
ReaderReturn ==
    /\ readerPc = "reading"
    /\ readTokens = <<>>
    /\ cache_lock' = "free"
    /\ readerPc' = "idle"
    /\ UNCHANGED <<cacheVars, procPc, procMessage, update_callbacks, callback_calls,
                   readTokens, readResult, written>>

----------------------------------------------------------------------------
(* OrderPlacer.place_quotes and OrderExecutor.place_order *)

\* Bound: place_quotes calls.
MaxPlaceCalls == 2

\* How the gateway answers POST /order: it accepts the order and names its
\* id, it answers without an id, or the request fails (an HTTP error status
\* or a transport error).
PlaceOutcomes == {"placed", "no_id", "error"}

\* What became of one leg: the requests sent for it, whether the executor
\* raised, and the order id place_quotes returns for it.
Leg(requests, raised, order_id) ==
    [requests |-> requests, raised |-> raised, order_id |-> order_id]
NoLeg == Leg(0, FALSE, None)

\* place_order re-sending the request once when it has failed.
place_order_resending(outcome, id) ==
    IF outcome = "error" THEN Leg(2, TRUE, None)
    ELSE Leg(1, FALSE, IF outcome = "placed" THEN Some(id) ELSE None)

\* OrderExecutor.place_order: one POST; a failure is logged and raised again.
place_order(outcome, id) ==
    IF outcome = "error" THEN Leg(1, TRUE, None)
    ELSE Leg(1, FALSE, IF outcome = "placed" THEN Some(id) ELSE None)

\* "if quote:" on a Quote or None: a Quote object is true whatever its size.
QuoteGiven(quote) == quote # None

\* One leg of place_quotes: nothing for a missing quote, else place_order
\* inside try / except Exception.
place_leg(quote, outcome, id) ==
    IF QuoteGiven(quote) THEN place_order(outcome, id) ELSE NoLeg

\* The NO leg given up when placing the YES leg has raised.
place_no_leg_unless_raised(yes_leg, quote, outcome) ==
    IF yes_leg.raised THEN NoLeg
    ELSE place_leg(quote, outcome,
                   next_order_id + (IF yes_leg.order_id # None THEN 1 ELSE 0))

\* The NO leg of place_quotes, which follows the YES leg however that ended.
place_no_leg(yes_leg, quote, outcome) ==
    place_leg(quote, outcome, next_order_id + (IF yes_leg.order_id # None THEN 1 ELSE 0))

\* The ids a leg adds to active_orders.
LegIds(leg) == IF leg.order_id # None THEN {leg.order_id[1]} ELSE {}

\* OrderPlacer.__init__: the lifetime of an order, in ms.
order_lifetime_ms == 3000

PlacerInit ==
    /\ placer_orders = {}
    /\ next_order_id = 1
    /\ place_requests = 0
    /\ placeCall = [n |-> 0, yes_quote |-> None, no_quote |-> None,
                    yes |-> NoLeg, no |-> NoLeg, returned |-> FALSE]
    /\ expires_at = [id \in {} |-> 0]

\* The end of place_quotes for what became of its two legs.
place_quotes_returns(yes_quote, no_quote, yes_leg, no_leg) ==
    /\ placer_orders' = placer_orders \cup LegIds(yes_leg) \cup LegIds(no_leg)
    /\ expires_at' = [id \in placer_orders' |->
                         IF id \in LegIds(yes_leg) \cup LegIds(no_leg)
                         THEN placer_clock + order_lifetime_ms
                         ELSE expires_at[id]]
    /\ next_order_id' = next_order_id + Cardinality(LegIds(yes_leg) \cup LegIds(no_leg))
    /\ place_requests' = place_requests + yes_leg.requests + no_leg.requests
    /\ placeCall' = [n |-> placeCall.n + 1, yes_quote |-> yes_quote,
                     no_quote |-> no_quote, yes |-> yes_leg, no |-> no_leg,
                     returned |-> TRUE]

\* place_quotes(market_id, yes_quote, no_quote) with the gateway's answers.
place_quotes(yes_quote, no_quote, yes_leg, no_outcome) ==
    place_quotes_returns(yes_quote, no_quote, yes_leg,
                         place_no_leg(yes_leg, no_quote, no_outcome))

\* QuoteEngine.generate_quotes of src/market_maker is called for the quotes to
\* place, on the book 0.490 / 0.510 without L2 data.
GenerateQuotesToPlace ==
    /\ invVariant = "top"
    /\ \E t \in Ties :
          quoteCall' = QuoteCall("l2", 490, 510, FALSE, 0,
                                 generate_quotes_l2(inv, 490, 510, NoL2,
                                     <<t[1], t[2], t[1], t[1], t[2], t[3]>>))
    /\ UNCHANGED <<price_history, last_mid_price, crossCall>>

\* The pairs place_quotes is called with: the quotes the last generate_quotes
\* call of src/market_maker returned, or one or both legs missing.
QuotePairs ==
    IF quoteCall.engine = "l2"
    THEN {<<quoteCall.result.yes, quoteCall.result.no>>,
          <<quoteCall.result.yes, None>>, <<None, quoteCall.result.no>>}
    ELSE {<<None, None>>}

\* OrderPlacer.place_quotes is called.
PlaceQuotesCall ==
    /\ placeCall.n < MaxPlaceCalls
    /\ \E pair \in QuotePairs, yes_outcome \in PlaceOutcomes, no_outcome \in PlaceOutcomes :
          place_quotes(pair[1], pair[2],
                       place_leg(pair[1], yes_outcome, next_order_id), no_outcome)

----------------------------------------------------------------------------
(* OrderPlacer.cancel_expired_orders, with OrderExecutor.cancel_order *)

\* Settings.batch_cancellations, by its default.
batch_cancellations == TRUE

\* How the gateway answers DELETE /order/{id}: it cancels the order, or the
\* request fails (an HTTP error status or a transport error).
CancelOutcomes == {"cancelled", "error"}

\* The clock moves on by this much between two steps of the placer, in ms.
ClockStep == 1000

NoCancelPass ==
    [pc |-> "idle", now |-> 0, orders |-> [id \in {} |-> 0], expired |-> {},
     todo |-> {}, failed |-> {}, result |-> 0]

\* failed: the ids whose last direct cancel_order call returned False.
NoCancelCall ==
    [called |-> FALSE, order_id |-> 0, failed_before |-> FALSE, requested |-> FALSE,
     outcome |-> "none", result |-> FALSE, failed |-> {}]

\* in_flight: the legs whose POST /order has been sent and not yet answered.
NoPlaceRound ==
    [pc |-> "idle", yes_quote |-> None, no_quote |-> None, yes |-> NoLeg,
     in_flight |-> {}]

ExpiryInit ==
    /\ placer_clock = 0
    /\ pending_cancellations = {}
    /\ cancel_requests = {}
    /\ cancelPass = NoCancelPass
    /\ cancelCall = NoCancelCall
    /\ placeRound = NoPlaceRound

\* Time passes.
ClockTick ==
    /\ placer_clock + ClockStep <= MaxTime
    /\ placer_clock' = placer_clock + ClockStep
    /\ UNCHANGED <<pending_cancellations, cancel_requests, cancelPass, cancelCall, placeRound>>

\* An order that is due at the time of the pass counts as expired.
expired_or_due(now_read, expiry) == now_read >= expiry

\* cancel_expired_orders: "if now > order.expires_at".
is_expired(now_read, expiry) == now_read > expiry

\* OrderExecutor.cancel_order(order_id): no request for an id whose
\* cancellation is pending, else the id is noted and DELETE /order/{id} is
\* sent.  A failed request is logged and False is returned: nothing is raised.
cancel_order(order_id) ==
    IF batch_cancellations /\ order_id \in pending_cancellations
    THEN UNCHANGED <<pending_cancellations, cancel_requests>>
    ELSE /\ pending_cancellations' = pending_cancellations \cup {order_id}
         /\ cancel_requests' = cancel_requests \cup {order_id}

\* cancel_expired_orders reads the clock and lists the expired orders.
CancelExpiredStart ==
    /\ cancelPass.pc # "cancelling"
    /\ LET expired == {id \in placer_orders : is_expired(placer_clock, expires_at[id])}
       IN cancelPass' = [pc |-> "cancelling", now |-> placer_clock,
                         orders |-> expires_at, expired |-> expired, todo |-> expired,
                         failed |-> {}, result |-> 0]
    /\ UNCHANGED <<placer_clock, pending_cancellations, cancel_requests, cancelCall,
                   placeRound>>
    /\ UNCHANGED placerVars

\* cancel_expired_orders: one round of its for loop, on the next listed order
\* (dictionary order is the order of placing): cancel_order is awaited, then
\* the order is deleted from active_orders.
CancelExpiredStep ==
    /\ cancelPass.pc = "cancelling"
    /\ cancelPass.todo # {}
    /\ LET order_id == CHOOSE id \in cancelPass.todo : \A o \in cancelPass.todo : id <= o
       IN /\ cancel_order(order_id)
          /\ \E outcome \in CancelOutcomes :
                cancelPass' = [cancelPass EXCEPT
                                  !.todo = @ \ {order_id},
                                  !.failed = IF outcome = "error" THEN @ \cup {order_id}
                                             ELSE @]
          /\ placer_orders' = placer_orders \ {order_id}
          /\ expires_at' = [id \in placer_orders \ {order_id} |-> expires_at[id]]
    /\ UNCHANGED <<placer_clock, next_order_id, place_requests, placeCall, cancelCall,
                   placeRound>>

\* cancel_expired_orders returns len(expired).
CancelExpiredReturn ==
    /\ cancelPass.pc = "cancelling"
    /\ cancelPass.todo = {}
    /\ cancelPass' = [cancelPass EXCEPT !.pc = "returned",
                                        !.result = Cardinality(cancelPass.expired)]
    /\ UNCHANGED <<placer_clock, pending_cancellations, cancel_requests, cancelCall,
                   placeRound>>
    /\ UNCHANGED placerVars

----------------------------------------------------------------------------
(* OrderPlacer.place_quotes, request by request *)

\* place_quotes is called: with a YES quote its request is sent and awaited,
\* without one the NO leg follows at once.
PlaceRoundStart ==
    /\ placeRound.pc \in {"idle", "returned"}
    /\ placeCall.n < MaxPlaceCalls
    /\ \E pair \in QuotePairs :
          IF QuoteGiven(pair[1])
          THEN /\ placeRound' = [pc |-> "yes_sent", yes_quote |-> pair[1],
                                 no_quote |-> pair[2], yes |-> NoLeg,
                                 in_flight |-> {"yes"}]
               /\ UNCHANGED placerVars
          ELSE IF QuoteGiven(pair[2])
               THEN /\ placeRound' = [pc |-> "no_sent", yes_quote |-> pair[1],
                                      no_quote |-> pair[2], yes |-> NoLeg,
                                      in_flight |-> {"no"}]
                    /\ UNCHANGED placerVars
               ELSE /\ placeRound' = [pc |-> "returned", yes_quote |-> pair[1],
                                      no_quote |-> pair[2], yes |-> NoLeg,
                                      in_flight |-> {}]
                    /\ place_quotes_returns(pair[1], pair[2], NoLeg, NoLeg)
    /\ UNCHANGED <<placer_clock, pending_cancellations, cancel_requests, cancelPass,
                   cancelCall>>

\* "result = await self.executor.place_order(yes_order)" ends; the YES order
\* is recorded, and with a NO quote its request is sent.
PlaceYesAnswered ==
    /\ placeRound.pc = "yes_sent"
    /\ \E outcome \in PlaceOutcomes :
          LET yes_leg == place_order(outcome, next_order_id)
          IN  IF QuoteGiven(placeRound.no_quote)
              THEN /\ placeRound' = [placeRound EXCEPT !.pc = "no_sent", !.yes = yes_leg,
                                                       !.in_flight = {"no"}]
                   /\ UNCHANGED placerVars
              ELSE /\ placeRound' = [placeRound EXCEPT !.pc = "returned", !.yes = yes_leg,
                                                       !.in_flight = {}]
                   /\ place_quotes_returns(placeRound.yes_quote, placeRound.no_quote,
                                           yes_leg, NoLeg)
    /\ UNCHANGED <<placer_clock, pending_cancellations, cancel_requests, cancelPass,
                   cancelCall>>

\* "result = await self.executor.place_order(no_order)" ends and place_quotes
\* returns.
PlaceNoAnswered ==
    /\ placeRound.pc = "no_sent"
    /\ \E outcome \in PlaceOutcomes :
          /\ placeRound' = [placeRound EXCEPT !.pc = "returned", !.in_flight = {}]
          /\ place_quotes_returns(placeRound.yes_quote, placeRound.no_quote,
                                  placeRound.yes,
                                  place_no_leg(placeRound.yes, placeRound.no_quote,
                                               outcome))
    /\ UNCHANGED <<placer_clock, pending_cancellations, cancel_requests, cancelPass,
                   cancelCall>>

----------------------------------------------------------------------------
(* Direct calls of OrderExecutor.cancel_order *)

\* The order ids the executor is asked to cancel.
CancelIds == {1, 2, 3}

\* Whether cancel_order(order_id) sends DELETE /order/{id}.
cancel_order_requests(order_id) ==
    ~(batch_cancellations /\ order_id \in pending_cancellations)

\* What cancel_order(order_id) returns: True without a request for a pending
\* id, else whether the request succeeded.
cancel_order_result(order_id, outcome) ==
    IF cancel_order_requests(order_id) THEN outcome = "cancelled" ELSE TRUE

\* cancel_order(order_id) is called; the gateway would answer with outcome.
CancelOrderCall ==
    /\ \E order_id \in CancelIds, outcome \in CancelOutcomes :
          /\ cancel_order(order_id)
          /\ cancelCall' =
                [called |-> TRUE, order_id |-> order_id,
                 failed_before |-> order_id \in cancelCall.failed,
                 requested |-> cancel_order_requests(order_id),
                 outcome |-> outcome,
                 result |-> cancel_order_result(order_id, outcome),
                 failed |-> IF cancel_order_result(order_id, outcome)
                            THEN cancelCall.failed \ {order_id}
                            ELSE cancelCall.failed \cup {order_id}]
    /\ UNCHANGED <<placer_clock, cancelPass, placeRound>>

----------------------------------------------------------------------------
(* ProfitTracker and TradeRecord of src/src/market_maker/profit_tracker.py *)

\* Prices in ticks, sizes in contracts, P&L and fees in ticks times contracts.
MaxTrades == 2
MaxCloses == 3

\* TradeRecord as create_trade builds it.
TradeRecord(yes_price, no_price, yes_size, no_size) ==
    [yes_entry_price |-> yes_price, no_entry_price |-> no_price,
     yes_size |-> yes_size, no_size |-> no_size,
     yes_exit_price |-> None, no_exit_price |-> None,
     gross_pnl |-> 0, fees |-> 0, net_pnl |-> 0, is_closed |-> FALSE]

\* TradeRecord.close_trade(yes_exit_price, no_exit_price, fees).
Trade_close_trade(trade, yes_exit_price, no_exit_price, fees) ==
    LET yes_pnl == (yes_exit_price - trade.yes_entry_price) * trade.yes_size
        no_pnl == (no_exit_price - trade.no_entry_price) * trade.no_size
    IN  [trade EXCEPT !.yes_exit_price = Some(yes_exit_price),
                      !.no_exit_price = Some(no_exit_price),
                      !.is_closed = TRUE,
                      !.gross_pnl = yes_pnl + no_pnl,
                      !.fees = fees,
                      !.net_pnl = yes_pnl + no_pnl - fees]

\* ProfitTracker.__init__; trades[k] is the trade with the counter value k.
NewTracker ==
    [trades |-> <<>>, trade_counter |-> 0, total_gross_pnl |-> 0, total_fees |-> 0,
     total_net_pnl |-> 0, closed_trades_count |-> 0, open_trades_count |-> 0]

\* ProfitTracker.create_trade.
create_trade(t, yes_price, no_price, yes_size, no_size) ==
    [t EXCEPT !.trade_counter = @ + 1,
              !.trades = Append(@, TradeRecord(yes_price, no_price, yes_size, no_size)),
              !.open_trades_count = @ + 1]

\* ProfitTracker.close_trade for a trade_id the tracker knows.
close_trade(t, trade_id, yes_exit_price, no_exit_price, fees) ==
    LET trade == Trade_close_trade(t.trades[trade_id], yes_exit_price, no_exit_price,
                                   fees)
    IN  [t EXCEPT !.trades[trade_id] = trade,
                  !.total_gross_pnl = @ + trade.gross_pnl,
                  !.total_fees = @ + fees,
                  !.total_net_pnl = @ + trade.net_pnl,
                  !.open_trades_count = @ - 1,
                  !.closed_trades_count = @ + 1]

NoCloseCall ==
    [n |-> 0, trade_id |-> 0, was_closed |-> FALSE, changed |-> FALSE, result |-> FALSE]

NoSkewCall ==
    [called |-> FALSE, method |-> "none", skew |-> <<0, 1>>, yes_in |-> 0, no_in |-> 0,
     yes_out |-> 0, no_out |-> 0]

RestInit ==
    /\ tracker = NewTracker
    /\ closeCall = NoCloseCall
    /\ iteration_start = 0
    /\ skewCall = NoSkewCall

EntryPairs == {<<490, 500>>, <<400, 590>>}
ExitPairs == {<<500, 500>>, <<480, 505>>}
TradeFees == {0, 20}

\* create_trade(yes_order_id, no_order_id, yes_price, no_price, yes_size,
\* no_size) is called.
CreateTradeCall ==
    /\ tracker.trade_counter < MaxTrades
    /\ \E entry \in EntryPairs :
          tracker' = create_trade(tracker, entry[1], entry[2], default_size, default_size)
    /\ UNCHANGED closeCall

\* close_trade(trade_id, yes_exit_price, no_exit_price, fees) is called, for a
\* trade of the tracker, open or closed, or for an id it does not know.
CloseTradeCall ==
    /\ closeCall.n < MaxCloses
    /\ \E trade_id \in 1 .. MaxTrades + 1, exit \in ExitPairs, fees \in TradeFees :
          IF trade_id \notin DOMAIN tracker.trades
          THEN /\ closeCall' = [n |-> closeCall.n + 1, trade_id |-> trade_id,
                                was_closed |-> FALSE, changed |-> FALSE,
                                result |-> FALSE]
               /\ UNCHANGED tracker
          ELSE /\ tracker' = close_trade(tracker, trade_id, exit[1], exit[2], fees)
               /\ closeCall' = [n |-> closeCall.n + 1, trade_id |-> trade_id,
                                was_closed |-> tracker.trades[trade_id].is_closed,
                                changed |-> tracker' # tracker,
                                result |-> TRUE]

----------------------------------------------------------------------------
(* Calls of the inventory-skew price adjustments *)

\* Prices on the tick grid, as mirror_market and generate_quotes round them
\* before they adjust them, from 0.001 to 0.999.
SkewInputPrices ==
    {<<1, PriceScale - 1>>, <<3, 997>>, <<500, 500>>, <<997, 3>>, <<PriceScale - 1, 1>>,
     <<3, 3>>, <<997, 997>>}
\* Inventory skews from -1 to 1.
InputSkews == {<<-1, 1>>, <<-1, 2>>, <<-1, 10>>, <<0, 1>>, <<1, 10>>, <<3, 5>>, <<1, 1>>}

\* apply_inventory_skew_to_prices(bid_price, ask_price, inventory_skew) is
\* called; bid_price is the YES price and ask_price the NO price.
ApplyInventorySkewCall ==
    \E p \in SkewInputPrices, k \in InputSkews, up \in [1..2 -> BOOLEAN] :
       LET yes_p == p[1]
           no_p == p[2]
       IN
       skewCall' =
          [called |-> TRUE, method |-> "apply_inventory_skew_to_prices", skew |-> k,
           yes_in |-> yes_p, no_in |-> no_p,
           yes_out |-> apply_inventory_skew_to_prices(yes_p, no_p, k,
                                                      <<up[1], up[2]>>)[1],
           no_out |-> apply_inventory_skew_to_prices(yes_p, no_p, k,
                                                     <<up[1], up[2]>>)[2]]

\* apply_skew_to_price(price, is_yes) is called for the two legs on the
\* inventory manager of src/inventory; its skew is exposure / max_exposure.
ApplySkewToPriceCall ==
    /\ invVariant = "top"
    /\ \E p \in SkewInputPrices, up \in BOOLEAN :
          LET yes_p == p[1]
              no_p == p[2]
          IN
          skewCall' =
             [called |-> TRUE, method |-> "apply_skew_to_price",
              skew |-> Rat(inv.net_exposure_usd, max_exposure_usd),
              yes_in |-> yes_p, no_in |-> no_p,
              yes_out |-> apply_skew_to_price(inv, yes_p, TRUE, up),
              no_out |-> apply_skew_to_price(inv, no_p, FALSE, up)]

----------------------------------------------------------------------------
(* Specifications *)

Init ==
    /\ InvInit /\ SlInit /\ CacheInit /\ ConnInit /\ QuoteInit /\ BotInit /\ PricingInit
    /\ FeedInit /\ PlacerInit /\ OmsInit /\ ExpiryInit /\ RestInit

\* The inventory ledger alone, in both variants of the class.
NextInv == UpdateCall
SpecInv == Init /\ [][NextInv]_vars

\* The stop-loss manager alone.
InitStop == Init /\ invVariant = "core"
NextStop == RecordEntryCall \/ CheckStopLossCall \/ ResetCall
SpecStop == InitStop /\ [][NextStop]_vars

\* The feed's message handling and cache.
NextCache ==
    \/ (ProcessBadJson /\ UNCHANGED <<invVars, slVars, connVars, quoteVars, botVars, pricingVars, extVars>>)
    \/ (ProcessOtherMessage /\ UNCHANGED <<invVars, slVars, connVars, quoteVars, botVars, pricingVars, extVars>>)
    \/ (ProcessBookMessage /\ UNCHANGED <<invVars, slVars, connVars, quoteVars, botVars, pricingVars, extVars>>)
SpecCache == InitStop /\ [][NextCache]_vars

\* The feed's connection: the application's calls, the listen() task, close().
NextConn ==
    \/ (ConnectCall /\ UNCHANGED <<invVars, slVars, cacheVars, quoteVars, botVars, pricingVars, extVars>>)
    \/ (SubscribeCall /\ UNCHANGED <<invVars, slVars, cacheVars, quoteVars, botVars, pricingVars, extVars>>)
    \/ (ListenStart /\ UNCHANGED <<invVars, slVars, cacheVars, quoteVars, botVars, pricingVars, extVars>>)
    \/ (ListenLoop /\ UNCHANGED <<invVars, slVars, cacheVars, quoteVars, botVars, pricingVars, extVars>>)
    \/ (ListenConnected /\ UNCHANGED <<invVars, slVars, cacheVars, quoteVars, botVars, pricingVars, extVars>>)
    \/ (ListenBackoffEnds /\ UNCHANGED <<invVars, slVars, cacheVars, quoteVars, botVars, pricingVars, extVars>>)
    \/ (ListenMessage /\ UNCHANGED <<invVars, slVars, quoteVars, botVars, pricingVars, extVars>>)
    \/ (ListenTimeoutOrClosed /\ UNCHANGED <<invVars, slVars, cacheVars, quoteVars, botVars, pricingVars, extVars>>)
    \/ (ListenError /\ UNCHANGED <<invVars, slVars, cacheVars, quoteVars, botVars, pricingVars, extVars>>)
    \/ (ReconnectClose /\ UNCHANGED <<invVars, slVars, cacheVars, quoteVars, botVars, pricingVars, extVars>>)
    \/ (ReconnectConnect /\ UNCHANGED <<invVars, slVars, cacheVars, quoteVars, botVars, pricingVars, extVars>>)
    \/ (ReconnectConnected /\ UNCHANGED <<invVars, slVars, cacheVars, quoteVars, botVars, pricingVars, extVars>>)
    \/ (CloseCall /\ UNCHANGED <<invVars, slVars, cacheVars, quoteVars, botVars, pricingVars, extVars>>)
    \/ (CloseDone /\ UNCHANGED <<invVars, slVars, cacheVars, quoteVars, botVars, pricingVars, extVars>>)
SpecConn == InitStop /\ [][NextConn]_vars

\* The quote generators, called over the ledger a first fill has left.
NextQuote ==
    \/ FillBeforeQuoting
    \/ (GenerateQuotesCall /\ UNCHANGED <<invVars, slVars, cacheVars, connVars, botVars, pricingVars, extVars>>)
    \/ (GenerateQuotesL2Call /\ UNCHANGED <<invVars, slVars, cacheVars, connVars, botVars, pricingVars, extVars>>)
    \/ (GenerateAdvancedQuotesCall /\ UNCHANGED <<invVars, slVars, cacheVars, connVars, botVars, pricingVars, extVars>>)
SpecQuote == Init /\ [][NextQuote]_vars

\* The bot runs.
NextScenario ==
    GenerateAdvancedQuotesOnContext
        /\ UNCHANGED <<invVars, slVars, cacheVars, connVars, botVars, extVars>>
SpecScenario == InitStop /\ [][NextScenario]_vars

NextHedge ==
    CheckCriticalSkewCall
        /\ UNCHANGED <<invVars, slVars, cacheVars, connVars, quoteVars, botVars,
                       pricingVars, feedVars, placerVars, expiryVars, restVars>>
SpecHedge == InitStop /\ [][NextHedge]_vars

\* should_update_orders is called on an order management system that tracks
\* none, one or both of the orders.
NextUpdate ==
    ShouldUpdateOrdersCall
        /\ UNCHANGED <<invVars, slVars, cacheVars, connVars, quoteVars, botVars,
                       pricingVars, feedVars, placerVars, expiryVars, restVars>>

InitEdge == Init /\ invVariant = "top"
NextEdge ==
    \/ FillBeforeQuoting
    \/ (GenerateQuotesNearBounds
           /\ UNCHANGED <<invVars, slVars, cacheVars, connVars, botVars, pricingVars, extVars>>)
SpecEdge == InitEdge /\ [][NextEdge]_vars

NextBot ==
    \/ (SignalReceived /\ UNCHANGED <<invVars, slVars, cacheVars, connVars, quoteVars, pricingVars, extVars>>)
    \/ (RunStart /\ UNCHANGED <<invVars, slVars, cacheVars, connVars, quoteVars, pricingVars, extVars>>)
    \/ (DiscoverMarket /\ UNCHANGED <<invVars, slVars, cacheVars, connVars, quoteVars, pricingVars, extVars>>)
    \/ (CycleLoop /\ UNCHANGED <<invVars, slVars, cacheVars, connVars, quoteVars, pricingVars, extVars>>)
    \/ (UpdateOrderbook /\ UNCHANGED <<invVars, slVars, cacheVars, connVars, quoteVars, pricingVars, extVars>>)
    \/ (RefreshQuotes /\ UNCHANGED <<invVars, slVars, cacheVars, connVars, pricingVars, extVars>>)
    \/ (CycleSleep /\ UNCHANGED <<invVars, slVars, cacheVars, connVars, quoteVars, pricingVars, extVars>>)
    \/ (CycleBackoff /\ UNCHANGED <<invVars, slVars, cacheVars, connVars, quoteVars, pricingVars, extVars>>)
    \/ (RedeemLoop /\ UNCHANGED <<invVars, slVars, cacheVars, connVars, quoteVars, pricingVars, extVars>>)
    \/ (RedeemSleep /\ UNCHANGED <<invVars, slVars, cacheVars, connVars, quoteVars, pricingVars, extVars>>)
    \/ (CleanupStart /\ UNCHANGED <<invVars, slVars, cacheVars, connVars, quoteVars, pricingVars, extVars>>)
    \/ (CleanupClose /\ UNCHANGED <<invVars, slVars, cacheVars, connVars, quoteVars, pricingVars, extVars>>)
SpecBot == InitStop /\ [][NextBot]_vars

\* The bot under the scheduling of the asyncio event loop: a coroutine of
\* run_cancel_replace_cycle whose sleep has ended, or that stands at the head
\* of its while loop, is resumed.
BotFrame == UNCHANGED <<invVars, slVars, cacheVars, connVars, quoteVars, pricingVars, extVars>>
SpecBotLive ==
    /\ InitStop
    /\ [][NextBot]_vars
    /\ WF_vars(CycleBackoff /\ BotFrame)
    /\ WF_vars(CycleLoop /\ BotFrame)

\* The bot under the scheduling of the asyncio event loop and the timeouts of
\* its HTTP clients: every coroutine that can be resumed is resumed, every
\* sleep ends and every request returns.  When the signal arrives is up to
\* the operator.
RefreshFrame == UNCHANGED <<invVars, slVars, cacheVars, connVars, pricingVars, extVars>>
SpecBotShutdown ==
    /\ InitStop
    /\ [][NextBot]_vars
    /\ WF_vars(RunStart /\ BotFrame)
    /\ WF_vars(DiscoverMarket /\ BotFrame)
    /\ WF_vars(CycleLoop /\ BotFrame)
    /\ WF_vars(UpdateOrderbook /\ BotFrame)
    /\ WF_vars(RefreshQuotes /\ RefreshFrame)
    /\ WF_vars(CycleSleep /\ BotFrame)
    /\ WF_vars(CycleBackoff /\ BotFrame)
    /\ WF_vars(RedeemLoop /\ BotFrame)
    /\ WF_vars(RedeemSleep /\ BotFrame)
    /\ WF_vars(CleanupStart /\ BotFrame)
    /\ WF_vars(CleanupClose /\ BotFrame)

\* The bot runs next to a stop-loss manager.  The two share no state, so the
\* calls of the manager are taken before run() starts: every pair of a bot
\* state and a manager state that some interleaving reaches is reached this
\* way too.  The bot is constructed one refresh period before the horizon.
InitBotStop ==
    /\ InvInit /\ invVariant = "core"
    /\ SlInit /\ CacheInit /\ ConnInit /\ QuoteInit
    /\ BotInitAt(MaxTime - quote_refresh_rate_ms)
    /\ PricingInit
    /\ FeedInit /\ PlacerInit /\ OmsInit /\ ExpiryInit /\ RestInit
NextBotStop ==
    \/ (botPc = "constructed" /\ RecordEntryCall)
    \/ (botPc = "constructed" /\ CheckStopLossCall)
    \/ (botPc = "constructed" /\ ResetCall)
    \/ NextBot
SpecBotStop == InitBotStop /\ [][NextBotStop]_vars

\* The feed's message handler, step by step, with callbacks and a reader.
FeedFrame ==
    UNCHANGED <<invVars, slVars, connVars, quoteVars, botVars, pricingVars, placerVars,
                omsVars, expiryVars, restVars>>
NextFeed ==
    \/ (RegisterCallback /\ FeedFrame)
    \/ (FeedProcessBadJson /\ FeedFrame)
    \/ (FeedProcessOther /\ FeedFrame)
    \/ (FeedProcessBook /\ FeedFrame)
    \/ (FeedAcquire /\ FeedFrame)
    \/ (FeedWrite /\ FeedFrame)
    \/ (FeedCallbacks /\ FeedFrame)
    \/ (ReaderCall /\ FeedFrame)
    \/ (ReaderAcquire /\ FeedFrame)
    \/ (ReaderGet /\ FeedFrame)
    \/ (ReaderReturn /\ FeedFrame)
SpecFeed == InitStop /\ [][NextFeed]_vars

\* Quotes of the engine of src/market_maker are generated and placed.
PlaceFrame ==
    UNCHANGED <<invVars, slVars, cacheVars, connVars, botVars, pricingVars, feedVars,
                omsVars, expiryVars, restVars>>
InitPlace == Init /\ invVariant = "top"
NextPlace ==
    \/ FillBeforeQuoting
    \/ (GenerateQuotesToPlace /\ PlaceFrame /\ UNCHANGED placerVars)
    \/ (PlaceQuotesCall /\ PlaceFrame /\ UNCHANGED quoteVars)
SpecPlace == InitPlace /\ [][NextPlace]_vars

\* Quotes are generated once; they are placed, and cancel_expired_orders
\* passes run, while time passes.
ExpiryFrame ==
    UNCHANGED <<invVars, slVars, cacheVars, connVars, botVars, pricingVars, feedVars,
                omsVars, restVars>>
NextExpiry ==
    \/ (quoteCall.engine = "none" /\ GenerateQuotesToPlace /\ PlaceFrame
           /\ UNCHANGED placerVars)
    \/ (PlaceQuotesCall /\ PlaceFrame /\ UNCHANGED quoteVars)
    \/ (ClockTick /\ ExpiryFrame /\ UNCHANGED <<quoteVars, placerVars>>)
    \/ (CancelExpiredStart /\ ExpiryFrame /\ UNCHANGED quoteVars)
    \/ (CancelExpiredStep /\ ExpiryFrame /\ UNCHANGED quoteVars)
    \/ (CancelExpiredReturn /\ ExpiryFrame /\ UNCHANGED quoteVars)
SpecExpiry == InitPlace /\ [][NextExpiry]_vars

\* A fill moves the inventory, and the sizing methods are called on it.
NextSize ==
    \/ FillBeforeQuoting
    \/ (QuoteSizeCall
           /\ UNCHANGED <<invVars, slVars, cacheVars, connVars, quoteVars, botVars,
                          pricingVars, feedVars, placerVars, expiryVars, restVars>>)
SpecSize == Init /\ [][NextSize]_vars

\* A risk manager validates orders on a ledger that one fill has built.
NextRisk ==
    \/ (FillBeforeValidating
           /\ UNCHANGED <<slVars, cacheVars, connVars, quoteVars, botVars, pricingVars,
                          extVars>>)
    \/ (ValidateOrderCall
           /\ UNCHANGED <<invVars, slVars, cacheVars, connVars, quoteVars, botVars,
                          pricingVars, feedVars, placerVars, expiryVars, restVars>>)
SpecRisk == InitStop /\ [][NextRisk]_vars

\* Quotes are generated once and placed, request by request.
RoundFrame ==
    UNCHANGED <<invVars, slVars, cacheVars, connVars, quoteVars, botVars, pricingVars,
                feedVars, omsVars, restVars>>
NextRound ==
    \/ FillBeforeQuoting
    \/ (quoteCall.engine = "none" /\ GenerateQuotesToPlace /\ PlaceFrame
           /\ UNCHANGED placerVars)
    \/ (PlaceRoundStart /\ RoundFrame)
    \/ (PlaceYesAnswered /\ RoundFrame)
    \/ (PlaceNoAnswered /\ RoundFrame)
SpecRound == InitPlace /\ [][NextRound]_vars

\* The bot with the beginning of each iteration of run_cancel_replace_cycle
\* noted: the time at which "while self.running" lets an iteration begin.
IterationBegins ==
    /\ CycleLoop
    /\ iteration_start' = IF bot_running THEN now ELSE iteration_start
    /\ UNCHANGED <<invVars, slVars, cacheVars, connVars, quoteVars, pricingVars,
                   feedVars, placerVars, omsVars, expiryVars, trackerVars, skewVars>>
NextCadence ==
    \/ (SignalReceived /\ BotFrame)
    \/ (RunStart /\ BotFrame)
    \/ (DiscoverMarket /\ BotFrame)
    \/ IterationBegins
    \/ (UpdateOrderbook /\ BotFrame)
    \/ (RefreshQuotes /\ RefreshFrame)
    \/ (CycleSleep /\ BotFrame)
    \/ (CycleBackoff /\ BotFrame)
    \/ (RedeemLoop /\ BotFrame)
    \/ (RedeemSleep /\ BotFrame)
    \/ (CleanupStart /\ BotFrame)
    \/ (CleanupClose /\ BotFrame)
\* The bot is constructed at time 0, which leaves the horizon room for the
\* market data cache to expire and an iteration to wait for the gateway.
InitCadence ==
    /\ InvInit /\ invVariant = "core"
    /\ SlInit /\ CacheInit /\ ConnInit /\ QuoteInit
    /\ BotInitAt(0)
    /\ PricingInit
    /\ FeedInit /\ PlacerInit /\ OmsInit /\ ExpiryInit /\ RestInit
SpecCadence == InitCadence /\ [][NextCadence]_vars

\* Trades are created and closed on a profit tracker.
TrackerFrame ==
    UNCHANGED <<invVars, slVars, cacheVars, connVars, quoteVars, botVars, pricingVars,
                feedVars, placerVars, omsVars, expiryVars, cadenceVars, skewVars>>
NextTracker ==
    \/ (CreateTradeCall /\ TrackerFrame)
    \/ (CloseTradeCall /\ TrackerFrame)
SpecTracker == InitStop /\ [][NextTracker]_vars

\* A fill moves the inventory, and prices are adjusted for the skew.
SkewFrame ==
    UNCHANGED <<invVars, slVars, cacheVars, connVars, quoteVars, botVars, pricingVars,
                feedVars, placerVars, omsVars, expiryVars, trackerVars, cadenceVars>>
NextSkew ==
    \/ FillBeforeQuoting
    \/ (ApplyInventorySkewCall /\ SkewFrame)
    \/ (ApplySkewToPriceCall /\ SkewFrame)
SpecSkew == InitPlace /\ [][NextSkew]_vars

\* An executor is asked to cancel orders, again and again.
NextCancel ==
    CancelOrderCall
        /\ UNCHANGED <<invVars, slVars, cacheVars, connVars, quoteVars, botVars,
                       pricingVars, feedVars, placerVars, omsVars, restVars>>
SpecCancel == InitStop /\ [][NextCancel]_vars

\* The advanced engine and direct calls of its anti-crossing check.
NextCross ==
    \/ FillBeforeQuoting
    \/ (GenerateAdvancedQuotesCall /\ UNCHANGED <<invVars, slVars, cacheVars, connVars, botVars, pricingVars, extVars>>)
    \/ (CheckAntiCrossingCall /\ UNCHANGED <<invVars, slVars, cacheVars, connVars, botVars, pricingVars, extVars>>)
SpecCross == Init /\ [][NextCross]_vars

\* A spread engine of any configuration with min <= max is called.
InitSpread ==
    /\ InvInit /\ invVariant = "core"
    /\ SlInit /\ CacheInit /\ ConnInit /\ QuoteInit /\ BotInit
    /\ \E config \in SpreadConfigs : PricingInitWith(config, {})
    /\ FeedInit /\ PlacerInit /\ OmsInit /\ ExpiryInit /\ RestInit
NextSpread ==
    CalculateDynamicSpreadCall
        /\ UNCHANGED <<invVars, slVars, cacheVars, connVars, quoteVars, botVars, extVars>>
SpecSpread == InitSpread /\ [][NextSpread]_vars

\* Partial fills are reported to an order management system that tracks
\* none, one or both of the orders.
InitFill ==
    /\ InvInit /\ invVariant = "core"
    /\ SlInit /\ CacheInit /\ ConnInit /\ QuoteInit /\ BotInit
    /\ \E orders \in SUBSET OrderIds :
          PricingInitWith(<<base_spread_bps, engine_min_spread_bps,
                            engine_max_spread_bps>>, orders)
    /\ FeedInit /\ PlacerInit /\ OmsInit /\ ExpiryInit /\ RestInit
NextFill ==
    HandlePartialFillCall
        /\ UNCHANGED <<invVars, slVars, cacheVars, connVars, quoteVars, botVars, extVars>>
SpecFill == InitFill /\ [][NextFill]_vars
SpecUpdate == InitFill /\ [][NextUpdate]_vars

----------------------------------------------------------------------------
(* Claims *)

\* C1: every pair of quotes a generator returns with both legs present has
\* yes_price + no_price < 1.
C1_ReturnedPairHasEdge ==
    (quoteCall.result.yes # None /\ quoteCall.result.no # None) =>
        quoteCall.result.yes[1].price + quoteCall.result.no[1].price < PriceScale

\* C5: once check_stop_loss has returned true the manager stays triggered
\* through every further check_stop_loss and record_entry call, none of which
\* returns true again, and reset() returns it to the armed state.
C5_LatchedUntilReset ==
    [][ /\ (slCall'.op = "check_stop_loss" /\ slCall'.ret) => stop_loss_triggered'
        /\ (stop_loss_triggered /\ slCall'.op # "reset")
               => (stop_loss_triggered' /\ ~slCall'.ret)
        /\ (slCall'.op = "reset") => ~stop_loss_triggered' ]_slVars

\* C5 witness: a triggered manager was asked again with a position whose loss
\* is over the limit, and answered false.
C5_Witness ==
    /\ stop_loss_triggered
    /\ slCall.op = "check_stop_loss"
    /\ slCall.was_triggered
    /\ LossExceedsLimit(entry_prices, slCall.yes_position, slCall.no_position, slCall.price)
    /\ ~slCall.ret

\* The scenario of C6: entries yes = 0.40 and no = 0.55 recorded.
ScenarioEntries == entry_prices = [yes |-> Some(400), no |-> Some(550)]

SidePrices(side) == {side[k][1] : k \in DOMAIN side}
MaxOf(S) == CHOOSE x \in S : \A y \in S : y <= x
MinOf(S) == CHOOSE x \in S : \A y \in S : x <= y

\* C2: every cached snapshot has non-empty sides and 0 < best_bid < best_ask
\* < 1, best_bid being the highest bid price and best_ask the lowest ask price
\* among its levels.
C2_CachedBookNotCrossed ==
    \A t \in Tokens :
        orderbook_cache[t] # None =>
            LET snap == orderbook_cache[t][1]
            IN  /\ snap.bids # <<>> /\ snap.asks # <<>>
                /\ 0 < MaxOf(SidePrices(snap.bids))
                /\ MaxOf(SidePrices(snap.bids)) < MinOf(SidePrices(snap.asks))
                /\ MinOf(SidePrices(snap.asks)) < PriceScale

\* C3: once reconnect() has established a new connection, a subscribe message
\* has been sent on that connection for every remembered token.
C3_ResubscribedOnNewConnection ==
    feedLog.reader = "reconnected" =>
        \A t \in subscribed_tokens : <<feedLog.reconnected_on, t>> \in wire

\* C4: a failed connection attempt of the reader never terminates listen():
\* listen() has not returned after a failed attempt unless close() was called.
C4_FailedConnectKeepsReaderAlive ==
    (listenPc = "done" /\ feedLog.connect_failed) => feedLog.close_called

\* C9: get_skew() is within [-1, 1] after any sequence of updates with signed
\* deltas, and is 0 when both positions are zero.
C9_SkewInRange ==
    invVariant = "core" =>
        LET skew == Inventory_get_skew(inv)
        IN  /\ -skew[2] <= skew[1] /\ skew[1] <= skew[2]
            /\ (inv.yes_position = 0 /\ inv.no_position = 0) => skew[1] = 0

\* C10: after any sequence of updates the positions are the sums of the
\* deltas, and net_exposure_usd = yes*p - no*(1-p), total_value_usd =
\* yes*p + no*(1-p) for the price p of the most recent update.
C10_RecomputedFromPositions ==
    /\ inv.yes_position = invSumYes
    /\ inv.no_position = invSumNo
    /\ invLastPrice # 0 =>
        /\ inv.net_exposure_usd = inv.yes_position * invLastPrice
                                    - inv.no_position * (PriceScale - invLastPrice)
        /\ inv.total_value_usd = inv.yes_position * invLastPrice
                                   + inv.no_position * (PriceScale - invLastPrice)

\* C10 witness: positions built up over several updates, the last at 0.90.
C10_Witness ==
    /\ invLastPrice = 900
    /\ inv.yes_position = MaxPos
    /\ inv.no_position = -1
    /\ inv.net_exposure_usd = MaxPos * 900 + 100

\* C7: while the stop-loss is triggered, refresh_quotes generates no new
\* quotes.
C7_NoQuotesWhileTriggered ==
    [][stop_loss_triggered => quotes_generated' = quotes_generated]_vars

\* C8: once cleanup() has called close() on a client, a request that cancels
\* orders has been sent to the gateway.
C8_CancelBeforeClose ==
    close_calls # <<>> => gateway_requests \cap CancelRequests # {}

\* C11: for an engine with min_spread_bps <= max_spread_bps, every result of
\* calculate_dynamic_spread lies within [min_spread_bps, max_spread_bps], for
\* every base spread and every pricing context.
C11_SpreadWithinBounds ==
    (spreadCall.called /\ engine_config[2] <= engine_config[3])
        => (engine_config[2] <= spreadCall.result
            /\ spreadCall.result <= engine_config[3])

\* The protections raised the spread above the maximum and the result is the
\* maximum.
C11_Witness ==
    /\ spreadCall.called
    /\ engine_config[2] < engine_config[3]
    /\ calculate_dynamic_spread_unclamped(engine_config[1], engine_config[2],
                                          engine_config[3], spreadCall.context)
           > engine_config[3]
    /\ spreadCall.result = engine_config[3]

\* The result of the engine of this state on a context.
SpreadOf(context) ==
    calculate_dynamic_spread(engine_config[1], engine_config[2], engine_config[3],
                             context)

\* Two contexts that differ at most in volatility, both above 0.3 (0.09 as a
\* square), the second at least as volatile as the first.
VolatilityRaised(c, d) ==
    /\ d.imbalance = c.imbalance
    /\ d.inventory_skew = c.inventory_skew
    /\ RatLess(Rat(9, 100), c.volatility_sq)
    /\ ~RatLess(d.volatility_sq, c.volatility_sq)

\* Two contexts that differ at most in imbalance, both above 0.3 in absolute
\* value, the second at least as imbalanced as the first.
ImbalanceRaised(c, d) ==
    /\ d.volatility_sq = c.volatility_sq
    /\ d.inventory_skew = c.inventory_skew
    /\ RatLess(Rat(3, 10), RatAbs(c.imbalance))
    /\ ~RatLess(RatAbs(d.imbalance), RatAbs(c.imbalance))

\* C12: between two calls on the same engine with all other inputs equal, the
\* result (after truncation and the final clamp) does not decrease when the
\* volatility grows within volatility > 0.3, nor when |imbalance| grows within
\* |imbalance| > 0.3.
C12_MonotoneInVolatilityAndImbalance ==
    [][(spreadCall.called /\ spreadCall'.called
        /\ (\/ VolatilityRaised(spreadCall.context, spreadCall'.context)
            \/ ImbalanceRaised(spreadCall.context, spreadCall'.context)))
       => spreadCall'.result >= spreadCall.result]_vars

\* A call whose result is strictly above the engine's result for a lower
\* volatility above 0.3, and whose imbalance is above a smaller imbalance that
\* is itself above 0.3, with the other inputs equal.
C12_Witness ==
    /\ spreadCall.called
    /\ \E c \in PricingContexts :
          /\ VolatilityRaised(c, spreadCall.context)
          /\ SpreadOf(c) < spreadCall.result
    /\ \E c \in PricingContexts :
          /\ ImbalanceRaised(c, spreadCall.context)
          /\ RatLess(RatAbs(c.imbalance), RatAbs(spreadCall.context.imbalance))

\* The spread of a pair relative to its midpoint is below 1 bps.
BelowOneBps(bid_price, ask_price) ==
    RatLess(RatMul(Rat(ask_price - bid_price, 1), Rat(2 * 10000, bid_price + ask_price)),
            RatInt(1))

\* C13: check_anti_crossing rejects every pair with bid >= ask and every pair
\* whose spread relative to the midpoint is below 1 bps and accepts every
\* other pair; when the check of generate_advanced_quotes rejects the prices,
\* the call returns (None, None).
C13_CrossedPairRejected ==
    /\ crossCall.caller # "none" =>
          (crossCall.is_valid
              <=> ~(\/ crossCall.bid_price >= crossCall.ask_price
                    \/ BelowOneBps(crossCall.bid_price, crossCall.ask_price)))
    /\ (crossCall.caller = "generate_advanced_quotes" /\ ~crossCall.is_valid)
          => quoteCall.result = NoQuotes

\* generate_advanced_quotes has returned (None, None) for prices its check
\* rejected.
C13_Witness ==
    /\ crossCall.caller = "generate_advanced_quotes"
    /\ ~crossCall.is_valid
    /\ quoteCall.engine = "advanced"
    /\ quoteCall.result = NoQuotes

\* The fill ratio filled_size / total_size of the last call.
FillRatio == Rat(fillCall.filled_size, fillCall.total_size)

\* C14: for an order present in active_orders, handle_partial_fill returns
\* should_cancel = false and remaining_size = total for a fill ratio below
\* 0.2, should_cancel = false and remaining_size = max(10, total - filled) for
\* a ratio from 0.2 to 0.8 inclusive, and should_cancel = true above 0.8.
C14_PartialFillBands ==
    (fillCall.called /\ fillCall.order_id \in active_orders) =>
        /\ RatLess(FillRatio, Rat(2, 10)) =>
              (/\ ~fillCall.result.should_cancel
               /\ fillCall.result.remaining_size = Some(fillCall.total_size))
        /\ (~RatLess(FillRatio, Rat(2, 10)) /\ ~RatLess(Rat(8, 10), FillRatio)) =>
              (/\ ~fillCall.result.should_cancel
               /\ fillCall.result.remaining_size
                     = Some(Max(10, fillCall.total_size - fillCall.filled_size)))
        /\ RatLess(Rat(8, 10), FillRatio) => fillCall.result.should_cancel

\* A tracked order filled to exactly 80% is kept, with the remaining size
\* raised to 10.
C14_Witness ==
    /\ fillCall.called
    /\ fillCall.order_id \in active_orders
    /\ fillCall.filled_size * 10 = fillCall.total_size * 8
    /\ fillCall.total_size - fillCall.filled_size < 10
    /\ fillCall.result = FillResult(FALSE, Some(10))

\* The prices of the first level of each side are not 0 < bid < ask < 1.
BestPricesUnsound(bids, asks) ==
    ~(0 < bids[1][1] /\ bids[1][1] < asks[1][1] /\ asks[1][1] < PriceScale)

\* An order-book message that fails validation: it has no token id, a side
\* is empty after parsing, or its best bid and ask are unsound.
FailsValidation(data) ==
    \/ data.token_id = NoToken
    \/ ParseLevels(data.bids) = <<>>
    \/ ParseLevels(data.asks) = <<>>
    \/ BestPricesUnsound(ParseLevels(data.bids), ParseLevels(data.asks))

\* C15: the step in which _process_message handles an order-book message that
\* fails validation leaves every token's cached snapshot as it was, does not
\* count an update, invokes no callback, and ends with the handler returned
\* (procPc "idle": nothing is left to do and nothing was raised).
C15_InvalidMessageChangesNothing ==
    [][(procMessage'.n # procMessage.n /\ procMessage'.kind = "book"
        /\ FailsValidation(procMessage'.data))
       => (/\ orderbook_cache' = orderbook_cache
           /\ \A t \in Tokens : get_orderbook(t)' = get_orderbook(t)
           /\ updates_processed' = updates_processed
           /\ callback_calls' = callback_calls
           /\ procPc' = "idle")]_vars

\* A message that fails validation has been handled for a token whose
\* snapshot is cached, with a callback registered, and the handler is back.
C15_Witness ==
    /\ procMessage.kind = "book"
    /\ FailsValidation(procMessage.data)
    /\ procMessage.data.token_id \in Tokens
    /\ orderbook_cache[procMessage.data.token_id] # None
    /\ update_callbacks > 0
    /\ updates_processed = 1
    /\ callback_calls = update_callbacks
    /\ messages_received = 2
    /\ procPc = "idle"

\* A value a reader may hold for a token: nothing cached, or one of the
\* complete snapshots the parser built for that token.
WholeSnapshot(t, entry) == entry = None \/ entry[1] \in written[t]

\* C16: whatever a reader obtains for a token, while the writer handles
\* messages, is a complete snapshot built for that token (the one cached
\* before the writer's update or the one cached by it), never a mixture; a
\* cache entry changes only while the writer holds the cache lock, to the
\* complete snapshot being handled, and every cached entry stays such a
\* snapshot.
C16_ReaderSeesWholeSnapshots ==
    /\ [](\A t \in Tokens :
            /\ readResult[t].read => WholeSnapshot(t, readResult[t].entry)
            /\ WholeSnapshot(t, orderbook_cache[t]))
    /\ [][\A t \in Tokens :
            orderbook_cache'[t] # orderbook_cache[t]
                => (/\ cache_lock = "writer"
                    /\ t = procMessage.data.token_id
                    /\ orderbook_cache'[t] = parse_orderbook_message(procMessage.data))]_vars

\* The reader holds the lock and has obtained the cached "yes" snapshot while
\* the writer waits for the lock with a different "yes" snapshot.
C16_Witness ==
    /\ cache_lock = "reader"
    /\ readResult["yes"].read
    /\ readResult["yes"].entry # None
    /\ procPc = "acquiring"
    /\ procMessage.data.token_id = "yes"
    /\ parse_orderbook_message(procMessage.data) # readResult["yes"].entry

\* A quote whose size is 0.
ZeroSize(quote) == quote # None /\ quote[1].size[1] = 0

\* C17: a leg whose computed size is 0 is no quote: generate_quotes of
\* src/market_maker returns no quote of size 0, and place_quotes sends no
\* request for a leg whose quote has size 0.
C17_ZeroSizeLegNotPlaced ==
    /\ quoteCall.engine = "l2" =>
          (~ZeroSize(quoteCall.result.yes) /\ ~ZeroSize(quoteCall.result.no))
    /\ placeCall.returned =>
          /\ ZeroSize(placeCall.yes_quote) => placeCall.yes.requests = 0
          /\ ZeroSize(placeCall.no_quote) => placeCall.no.requests = 0

\* C18: place_quotes returns, whatever the gateway did.  When the placement
\* of one leg has raised, the other leg, if it has a quote, has still been
\* sent; the failed leg is returned as absent and the other leg's id as the
\* gateway gave it; active_orders holds exactly the ids the gateway gave.
C18_FailedLegDoesNotStopTheOther ==
    /\ placeCall.n > 0 => placeCall.returned
    /\ placeCall.yes.raised =>
          /\ placeCall.yes.order_id = None
          /\ QuoteGiven(placeCall.no_quote) => placeCall.no.requests >= 1
    /\ placeCall.no.raised =>
          /\ placeCall.no.order_id = None
          /\ QuoteGiven(placeCall.yes_quote) => placeCall.yes.requests >= 1
    /\ LegIds(placeCall.yes) \cup LegIds(placeCall.no) \subseteq placer_orders
    /\ placer_orders = 1..(next_order_id - 1)

\* Placing the YES leg has raised, the NO leg was placed, its id is returned
\* and is the only one added to active_orders by the call.
C18_Witness ==
    /\ placeCall.n = 1
    /\ placeCall.yes.raised
    /\ placeCall.yes.order_id = None
    /\ placeCall.no.order_id # None
    /\ placer_orders = LegIds(placeCall.no)

\* The requests sent so far are at most one per quote given to place_quotes.
QuotesGiven(call) ==
    (IF QuoteGiven(call.yes_quote) THEN 1 ELSE 0)
        + (IF QuoteGiven(call.no_quote) THEN 1 ELSE 0)

\* C19: each leg of each place_quotes call sends at most one place request,
\* whether or not it fails: the requests of a call are one per quote given.
C19_OneRequestPerLeg ==
    /\ [](placeCall.yes.requests <= 1 /\ placeCall.no.requests <= 1)
    /\ [][place_requests' - place_requests
             = IF placeCall'.n # placeCall.n THEN QuotesGiven(placeCall') ELSE 0]_vars

\* Both legs of the second call have failed, and two requests were sent for
\* them.
C19_Witness ==
    /\ placeCall.n = 2
    /\ placeCall.yes.raised /\ placeCall.no.raised
    /\ placeCall.yes.requests = 1 /\ placeCall.no.requests = 1
    /\ place_requests >= 2

\* C20: an exception raised inside an iteration of run_cancel_replace_cycle
\* is caught and followed by the backoff; once the backoff has room to end
\* before the horizon, the loop comes back to its head and runs the next
\* iteration (or ends, when running was cleared meanwhile); the loop ends
\* only from its head, with running false.
CycleRaised == cycle_errors' = cycle_errors + 1
CycleExits == cyclePc # "done" /\ cyclePc' = "done"
C20_LoopSurvivesException ==
    /\ [][CycleRaised => (cyclePc = "refreshing" /\ cyclePc' = "backoff")]_vars
    /\ (cyclePc = "backoff" /\ now + backoff_ms <= MaxTime)
           ~> (cyclePc = "updating" \/ cyclePc = "done")
    /\ [][CycleExits => (cyclePc = "loop" /\ ~bot_running)]_vars
    /\ [](cyclePc = "backoff" => cycle_errors > 0)

\* An iteration has begun after refresh_quotes raised on a NaN book and the
\* backoff ended, with running still true.
C20_Witness ==
    /\ cycle_errors > 0
    /\ cyclePc = "updating"
    /\ bot_running
    /\ IsNaN(current_orderbook)

\* C21: a quote generator called without L2 data on a degenerate book (best
\* bid <= 0, best ask <= 0 or >= 1, bid >= ask, or a mid outside (0, 1))
\* returns (None, None).
DegenerateInput(best_bid, best_ask) ==
    \/ best_bid <= 0
    \/ best_ask <= 0
    \/ best_ask >= PriceScale
    \/ best_bid >= best_ask
    \/ best_bid + best_ask <= 0
    \/ best_bid + best_ask >= 2 * PriceScale
C21_DegenerateBookNoQuotes ==
    (/\ quoteCall.engine \in {"core", "l2"}
     /\ ~quoteCall.l2_book
     /\ DegenerateInput(quoteCall.best_bid, quoteCall.best_ask))
        => quoteCall.result = NoQuotes

\* C22: for mid 0.50, volatility 0.1, no imbalance, no inventory skew and a
\* base spread of 10 bps, the yes and the no price returned are within one
\* tick of 0.495 and 0.505 and 1 - (yes + no) > 0, whatever the jitter.
C22_ScenarioQuotes ==
    (/\ quoteCall.engine = "advanced"
     /\ spreadCall.called
     /\ spreadCall.context = PricingContext(<<1, 100>>, <<0, 1>>, <<0, 1>>)
     /\ quoteCall.result.yes # None /\ quoteCall.result.no # None)
        => /\ Abs(quoteCall.result.yes[1].price - 495) <= 1
           /\ Abs(quoteCall.result.no[1].price - 505) <= 1
           /\ quoteCall.result.yes[1].price + quoteCall.result.no[1].price < PriceScale

\* C23: check_critical_skew returns should_hedge with the dominant side (YES
\* for a positive skew, NO for a negative one) and half of that side's
\* position valued at the current price when |skew| > 0.8, and no hedge with
\* size 0 otherwise.
CriticalSkew(k) == 5 * Abs(k[1]) > 4 * k[2]
C23_CriticalSkewHedgesHalf ==
    hedgeCall.called =>
        IF CriticalSkew(hedgeCall.inventory_skew)
        THEN /\ hedgeCall.result.should_hedge
             /\ hedgeCall.result.side_to_close =
                    IF hedgeCall.inventory_skew[1] > 0 THEN <<"YES">> ELSE <<"NO">>
             /\ 2 * hedgeCall.result.size[1] =
                    hedgeCall.result.size[2] * hedgeCall.current_price *
                        (IF hedgeCall.inventory_skew[1] > 0 THEN hedgeCall.yes_position
                         ELSE hedgeCall.no_position)
        ELSE /\ ~hedgeCall.result.should_hedge
             /\ hedgeCall.result.size[1] = 0

\* A call at skew 0.85 with a yes position of 250 at 0.40: hedge YES for 50,000
\* thousandths of a dollar (125 contracts at 0.40).
C23_Witness ==
    /\ hedgeCall.called
    /\ hedgeCall.inventory_skew = <<17, 20>>
    /\ hedgeCall.yes_position = 250 /\ hedgeCall.current_price = 400
    /\ hedgeCall.result = HedgeResult(TRUE, <<"YES">>, <<50000, 1>>)

\* C24: every price generate_quotes of src/market_maker returns is at least
\* one tick and below 1, and the two prices sum to at most 1 - tick (a sum of
\* exactly 1 - tick passes the float comparison or not).
PriceWithinTicks(quote) == tick_size <= quote[1].price /\ quote[1].price < PriceScale
C24_ReturnedPricesWithinTicks ==
    (quoteCall.engine = "l2" /\ quoteCall.result.yes # None)
        => /\ PriceWithinTicks(quoteCall.result.yes)
           /\ PriceWithinTicks(quoteCall.result.no)
           /\ quoteCall.result.yes[1].price + quoteCall.result.no[1].price
                  <= PriceScale - 1

\* C25: every level <<price, size>> of every cached snapshot has
\* 0 < price < 1 and size > 0.
LevelInsideUnitInterval(level) ==
    0 < level[1] /\ level[1] < PriceScale /\ level[2] > 0
C25_CachedLevelsInsideUnitInterval ==
    \A t \in Tokens :
        orderbook_cache[t] # None =>
            /\ \A k \in DOMAIN orderbook_cache[t][1].bids :
                  LevelInsideUnitInterval(orderbook_cache[t][1].bids[k])
            /\ \A k \in DOMAIN orderbook_cache[t][1].asks :
                  LevelInsideUnitInterval(orderbook_cache[t][1].asks[k])

\* C26: once close() has been called, running is false and stays false, and
\* no connection is opened any more.
OpensConnection == websocket' # websocket /\ websocket' # NoSocket
C26_ClosedFeedStaysClosed ==
    /\ [](feedLog.close_called => ~running)
    /\ [][feedLog.close_called => ~OpensConnection]_vars

\* C27: when cleanup() has ended, by returning or by raising, close() has been
\* called on every client.
CleanupEnded == botPc \in {"done", "raised"} /\ close_calls # <<>>
C27_EveryClientCloseAttempted ==
    CleanupEnded => Len(close_calls) = Len(Clients)

\* C28: once the signal handler has set running to false while run() is under
\* way, run_cancel_replace_cycle starts no further iteration, and run() goes on
\* to execute cleanup(), which it does only after both loops have ended.  The
\* horizon leaves room for what the iteration under way still awaits: two
\* requests and one sleep.
ShutdownSignalled == ~bot_running /\ botPc \in {"discovering", "gathering"}
StartsIteration == cyclePc # "updating" /\ cyclePc' = "updating"
ShutdownRoom == now + 2 * 500 + backoff_ms <= MaxTime
CleanupExecuted ==
    botPc \in {"cleanup", "done", "raised"} /\ cyclePc = "done" /\ redeemPc = "done"
C28_SignalLeadsToCleanup ==
    /\ [][ShutdownSignalled => ~StartsIteration]_vars
    /\ (ShutdownSignalled /\ ShutdownRoom) ~> CleanupExecuted

\* C29: should_update_orders returns true exactly when there are no active
\* orders, or the mid has moved by more than 10 bps of the last mid, or more
\* than 2 seconds have passed since the last update.
MidMovedBeyondTolerance ==
    Abs(updateCall.current_mid_price - updateCall.last_mid_price) * 10000
        > 10 * updateCall.last_mid_price
C29_UpdateWhenAnyConditionHolds ==
    updateCall.called =>
        (updateCall.result <=> \/ updateCall.orders = {}
                               \/ MidMovedBeyondTolerance
                               \/ updateCall.time_since_update > 2000)

\* C30: when a cancel_expired_orders pass that read the clock at now has
\* returned, every order that was active with expires_at < now has had a
\* cancel request sent to the gateway and is no longer in active_orders,
\* whether its request succeeded or not, and every order that was active with
\* expires_at >= now is still in active_orders with no cancel request sent.
PassOrders == DOMAIN cancelPass.orders
C30_ExpiredOrdersCancelled ==
    cancelPass.pc = "returned" =>
        \A id \in PassOrders :
            IF cancelPass.orders[id] < cancelPass.now
            THEN id \in cancel_requests /\ id \notin placer_orders
            ELSE id \in placer_orders /\ id \notin cancel_requests

\* A pass has returned after cancelling an expired order whose request failed
\* and keeping an order that was due at the very time of the pass.
C30_Witness ==
    /\ cancelPass.pc = "returned"
    /\ \E id \in PassOrders :
          cancelPass.orders[id] < cancelPass.now /\ id \in cancelPass.failed
    /\ \E id \in PassOrders : cancelPass.orders[id] = cancelPass.now

\* C31: a cancel_order call for an id whose last cancel_order call failed
\* sends a new request to the gateway and returns that request's outcome.
C31_FailedCancelIsRetried ==
    (cancelCall.called /\ cancelCall.failed_before) =>
        /\ cancelCall.requested
        /\ cancelCall.result <=> (cancelCall.outcome = "cancelled")

\* C32: the yes size is 0 when net_exposure + base * price exceeds
\* max_exposure and else base, or base / 2 with the net exposure above the
\* target balance; the no size likewise against min_exposure; and
\* calculate_position_sizing gives 0 to a leg whose base size exceeds what is
\* available up to its bound.
YesBreaches ==
    sizeCall.net_exposure_usd * PriceScale + sizeCall.base_size * sizeCall.price
        > max_exposure_usd * PriceScale
NoBreaches ==
    sizeCall.net_exposure_usd * PriceScale
            - sizeCall.base_size * (PriceScale - sizeCall.price)
        < min_exposure_usd * PriceScale
C32_BreachingLegHasSizeZero ==
    sizeCall.called =>
        /\ IF YesBreaches THEN sizeCall.yes_size = <<0, 1>>
           ELSE \/ sizeCall.yes_size = Rat(sizeCall.base_size, 1)
                \/ /\ sizeCall.net_exposure_usd > target_balance
                   /\ sizeCall.yes_size = Rat(sizeCall.base_size, 2)
        /\ IF NoBreaches THEN sizeCall.no_size = <<0, 1>>
           ELSE \/ sizeCall.no_size = Rat(sizeCall.base_size, 1)
                \/ /\ sizeCall.net_exposure_usd < target_balance
                   /\ sizeCall.no_size = Rat(sizeCall.base_size, 2)
        /\ (max_exposure_usd - sizeCall.net_exposure_usd < default_size)
               => sizeCall.sizing[1] = <<0, 1>>
        /\ (max_exposure_usd + sizeCall.net_exposure_usd < default_size)
               => sizeCall.sizing[2] = <<0, 1>>

\* C33: validate_order rejects a BUY or SELL whose size, added to or taken
\* from the net exposure, leaves [min_exposure_usd, max_exposure_usd], and the
\* ledger after the call is the ledger before it.
ResultingExposure ==
    IF riskCall.side = "BUY"
    THEN riskCall.inventory.net_exposure_usd + riskCall.size_usd
    ELSE riskCall.inventory.net_exposure_usd - riskCall.size_usd
RiskOrder == riskCall.called /\ riskCall.side \in {"BUY", "SELL"}
C33_OrderLeavingLimitsRejected ==
    RiskOrder =>
        /\ (ResultingExposure > max_exposure_usd \/ ResultingExposure < min_exposure_usd)
               => ~riskCall.ok
        /\ inv = riskCall.inventory

\* C34: validate_order rejects a BUY or SELL when the skew of the ledger with
\* the order applied (its size moved into the net exposure and added to the
\* total value) exceeds inventory_skew_limit.
ResultingSkew ==
    <<Abs(ResultingExposure), riskCall.inventory.total_value_usd + riskCall.size_usd>>
C34_ResultingSkewChecked ==
    RiskOrder => (RatLess(inventory_skew_limit, ResultingSkew) => ~riskCall.ok)

\* C35: in a place_quotes call with both quotes, the NO leg's request is sent
\* while the YES leg's request is still awaiting its answer.
C35_LegsPlacedConcurrently ==
    (placeRound.pc = "no_sent" /\ QuoteGiven(placeRound.yes_quote)) =>
        "yes" \in placeRound.in_flight

\* C36: a close_trade call on a trade that is already closed changes neither
\* the record nor the tracker's totals and counters; open_trades_count is
\* never negative, and open_trades_count + closed_trades_count is the number
\* of trades.
C36_CloseIsSetOnce ==
    /\ closeCall.was_closed => ~closeCall.changed
    /\ tracker.open_trades_count >= 0
    /\ tracker.open_trades_count + tracker.closed_trades_count = Len(tracker.trades)

\* C37: the sleep that ends an iteration of the quoting loop lasts
\* max(0, quote_refresh_rate_ms - elapsed), elapsed being the time the
\* iteration has taken when the sleep begins.
SleepEnds == cyclePc = "sleeping" /\ cyclePc' = "loop"
C37_SleepCompensatesElapsed ==
    [][SleepEnds =>
          now' - now = Max(0, quote_refresh_rate_ms - (now - iteration_start))]_vars

\* C38: a skew adjustment of prices between 0.001 and 0.999 returns prices
\* between 0.001 and 0.999, each within half a tick of its input shifted by
\* skew * 0.005 (yes down, no up) and clamped; with a positive skew the yes
\* price is not raised and the no price not lowered, with a negative skew the
\* reverse, and with skew 0 both are unchanged.
ShiftTicks == RatMul(skewCall.skew, RatInt(5))
ClampedShift(x) == RatMax(RatInt(1), RatMin(RatInt(PriceScale - 1), x))
WithinHalfTick(out, x) ==
    ~RatLess(Rat(1, 2), RatAbs(RatSub(RatInt(out), ClampedShift(x))))
C38_SkewShiftsPricesApart ==
    skewCall.called =>
        /\ skewCall.yes_out \in 1 .. PriceScale - 1
        /\ skewCall.no_out \in 1 .. PriceScale - 1
        /\ WithinHalfTick(skewCall.yes_out, RatSub(RatInt(skewCall.yes_in), ShiftTicks))
        /\ WithinHalfTick(skewCall.no_out, RatAdd(RatInt(skewCall.no_in), ShiftTicks))
        /\ skewCall.skew[1] > 0 =>
               skewCall.yes_out <= skewCall.yes_in /\ skewCall.no_out >= skewCall.no_in
        /\ skewCall.skew[1] < 0 =>
               skewCall.yes_out >= skewCall.yes_in /\ skewCall.no_out <= skewCall.no_in
        /\ skewCall.skew[1] = 0 =>
               skewCall.yes_out = skewCall.yes_in /\ skewCall.no_out = skewCall.no_in

\* apply_skew_to_price has clamped the no price at 0.999 on a long inventory.
C38_Witness ==
    /\ skewCall.called
    /\ skewCall.method = "apply_skew_to_price"
    /\ skewCall.skew[1] > 0
    /\ skewCall.yes_out < skewCall.yes_in
    /\ skewCall.no_in = 997
    /\ skewCall.no_out = PriceScale - 1

\* C39: an order whose cancel request failed during a pass of
\* cancel_expired_orders is still among the active orders when the pass returns.
C39_FailedCancelKeepsOrder ==
    cancelPass.pc = "returned" =>
        \A id \in cancelPass.failed : id \in placer_orders

\* C40: for a tracked order and 0 <= filled_size <= total_size, the
\* remaining_size that handle_partial_fill returns is at most total_size.
C40_RemainingWithinTotal ==
    (/\ fillCall.called
     /\ fillCall.order_id \in active_orders
     /\ fillCall.filled_size <= fillCall.total_size) =>
        fillCall.result.remaining_size[1] <= fillCall.total_size

====
